---- MODULE Spec2Model ----
(***************************************************************************)
(* Access-code admission control of darkfactor-backend.                    *)
(*                                                                         *)
(* The repository holds four deployments of the server:                    *)
(*   "sec1"  src/index.js 1-549      in-memory store, security ledger      *)
(*   "mongo" src/index.js 551-1040   MongoDB store, asynchronous handlers  *)
(*   "sec2"  src/index.js 1042-1582  in-memory store, security ledger      *)
(*   "env"   src/unnamed/part_001    in-memory store, admin reset          *)
(* Init picks the deployment; every action is one request handler (or one  *)
(* stretch of an asynchronous handler between two awaits) of it.           *)
(* Time is in milliseconds, as Date.now() gives it.                        *)
(***************************************************************************)
EXTENDS Integers, Sequences, FiniteSets, TLC, Bags

VARIABLES
    variant,           \* the deployment that runs
    ADMIN_KEY,         \* process.env.ADMIN_KEY (ADMIN_TOKEN in mongo)
    now,               \* Date.now()
    ticks,             \* clock advances left to the run
    unpaced,           \* requests left to the run that no rate gate paces
    ACCESS_CODES,      \* the in-memory store
    SECURITY_RECORDS,  \* Map ip -> SecurityRecord
    ATTACK_DETECTION,  \* the attack monitor
    lastTick,          \* when the monitor's timer last fired (or was set)
    collection,        \* the MongoDB collection access_codes
    simulated_tests,   \* the MongoDB collection simulated_tests, a bag
    inflight,          \* mongo: the requests between two awaits
    resp               \* the last response sent, with its request

vars == <<variant, ADMIN_KEY, lastTick, simulated_tests, now, ticks, unpaced, ACCESS_CODES,
          SECURITY_RECORDS, ATTACK_DETECTION, collection, inflight, resp>>

(***************************************************************************)
(* Bounds of the model.                                                    *)
(***************************************************************************)
\* clock advances in one run of the ledger scenario (SpecLedger)
MaxTicks == 6
\* clock advances in one run of the general scenario (Spec)
ShortTicks == 2
\* largest maxUses a configured code gets
MaxUsesBound == 2
\* requests the asynchronous (MongoDB) deployment has in flight at once
MaxInFlight == 2
\* requests in one run that no rate gate paces: the requests of mongo, and
\* those of sec1 / sec2 on a path the middleware does not recognise
MaxUnpaced == 3
\* the same, in the ledger scenario
LedgerUnpaced == 1
\* the same, in the monitor scenario: enough for two alerts
MonitorUnpaced == 100
\* clock advances in one run of the monitor scenario
MonitorTicks == 2
\* ACCESS_CODE_EXPIRY_DAYS of the environment
EXPIRY_DAYS == 1

(***************************************************************************)
(* Program constants.                                                      *)
(***************************************************************************)
RATE_MS == 1000
FAIL_THRESHOLD == 5
BLOCK_MS == 15 * 60 * 1000
DAY_MS == 24 * 60 * 60 * 1000
HOUR_MS == 60 * 60 * 1000
CLEANUP_INTERVAL == 30 * 60 * 1000
RECORD_TTL == 24 * 60 * 60 * 1000
MIN_FORMAT_LEN_SEC1 == 4
MIN_FORMAT_LEN_SEC2 == 1
MAX_FORMAT_LEN == 20

\* JavaScript null / a missing field, for timestamps
NULL == 0 - 1

Variants == {"sec1", "mongo", "sec2", "env"}
SecVariants == {"sec1", "sec2"}
MemVariants == {"sec1", "sec2", "env"}

Clients == {"ip1"}

\* req.path as the route accepts it: the exact string the middleware
\* compares with, or another form the router maps to the same handler
\* (trailing slash, other letter case)
Paths == {"exact", "variant"}

(***************************************************************************)
(* Strings are sequences of one-character strings.                         *)
(***************************************************************************)
UpperLetters == {"A", "B", "C"}
LowerLetters == {"a", "b", "c"}
Digits == {"1"}
Whitespace == {" "}

\* String.prototype.toUpperCase on one character
UpperChar(ch) ==
    CASE ch = "a" -> "A"
      [] ch = "b" -> "B"
      [] ch = "c" -> "C"
      [] OTHER -> ch

toUpperCase(s) == [i \in 1..Len(s) |-> UpperChar(s[i])]

RECURSIVE trimStart(_)
trimStart(s) ==
    IF s # <<>> /\ Head(s) \in Whitespace THEN trimStart(Tail(s)) ELSE s

RECURSIVE trimEnd(_)
trimEnd(s) ==
    IF s # <<>> /\ s[Len(s)] \in Whitespace
    THEN trimEnd(SubSeq(s, 1, Len(s) - 1))
    ELSE s

\* String.prototype.trim
trim(s) == trimEnd(trimStart(s))

\* the normalization without its toUpperCase()
cleaned_NoUpper(s) == trim(s)

\* accessCode.trim().toUpperCase()
cleaned(s) == toUpperCase(trim(s))

\* /^[A-Z0-9]{min,20}$/.test(code)
MatchesFormat(code, min) ==
    /\ Len(code) >= min
    /\ Len(code) <= MAX_FORMAT_LEN
    /\ \A i \in 1..Len(code) : code[i] \in UpperLetters \cup Digits

\* isValidAccessCodeFormat of the deployment v
isValidAccessCodeFormat(v, code) ==
    MatchesFormat(code, IF v = "sec1" THEN MIN_FORMAT_LEN_SEC1
                        ELSE MIN_FORMAT_LEN_SEC2)

(***************************************************************************)
(* Request bodies: the accessCode field is missing / not a string, or a    *)
(* string.                                                                 *)
(***************************************************************************)
sABC1 == <<"A", "B", "C", "1">>
sAB == <<"A", "B">>
s_abc1_ == <<" ", "a", "b", "c", "1", " ">>
sCCCC == <<"C", "C", "C", "C">>
sBad == <<"A", "-", "B", "1">>
sBlank == <<" ">>

NotAString == [isString |-> FALSE, s |-> <<>>]
Str(s) == [isString |-> TRUE, s |-> s]

Inputs == {NotAString, Str(sABC1), Str(s_abc1_), Str(sAB), Str(sCCCC),
           Str(sBad), Str(sBlank)}

\* !accessCode || typeof accessCode !== 'string'
MissingOrNotString(inp) == ~inp.isString \/ inp.s = <<>>

(***************************************************************************)
(* Response messages (the texts the handlers send, by meaning).            *)
(***************************************************************************)
MSG_TOO_FREQUENT == "too frequent, retry later"
MSG_BLOCKED_15MIN == "too many attempts, retry in 15 minutes"
MSG_MISSING == "access code must be a non-empty string"
MSG_EMPTY == "access code must not be empty"
MSG_BAD_FORMAT == "access code format is wrong"
MSG_OK == "access code verified"
MSG_INVALID == "invalid access code"
MSG_EXHAUSTED == "access code reached its use limit"
MSG_EXPIRED == "access code expired"
MSG_USED == "access code already used"
MSG_ABNORMAL == "access code state abnormal"
MSG_SERVER_ERROR == "internal server error"

\* what a handler answers: res.status(..).json({valid, message,
\* remainingUses}), with the request it answers and the line it logs
Response(op, client, path, inp, status, valid, msg, remaining, log) ==
    [op |-> op, client |-> client, path |-> path, input |-> inp,
     status |-> status, valid |-> valid, message |-> msg,
     remainingUses |-> remaining, log |-> log]

NoResponse ==
    Response("none", "none", "none", NotAString, 0, FALSE, "none", NULL, "none")

(***************************************************************************)
(* class SecurityRecord                                                    *)
(***************************************************************************)
\* constructor(ip), run at time t
SecurityRecord(ip, t) ==
    [ip |-> ip, attempts |-> 0, failedAttempts |-> 0, lastAttempt |-> t,
     firstSeen |-> t, isBlocked |-> FALSE, blockUntil |-> NULL]

\* an addAttempt that counts the failures and never blocks
addAttempt_NoBlock(rec, success, t) ==
    LET r1 == [rec EXCEPT !.attempts = @ + 1, !.lastAttempt = t] IN
    IF ~success THEN [r1 EXCEPT !.failedAttempts = @ + 1]
    ELSE [r1 EXCEPT !.failedAttempts = 0]

\* addAttempt(success), run at time t: the record afterwards
addAttempt(rec, success, t) ==
    LET r1 == [rec EXCEPT !.attempts = @ + 1, !.lastAttempt = t] IN
    IF ~success
    THEN LET r2 == [r1 EXCEPT !.failedAttempts = @ + 1] IN
         IF r2.failedAttempts >= FAIL_THRESHOLD
         THEN [r2 EXCEPT !.isBlocked = TRUE, !.blockUntil = t + BLOCK_MS]
         ELSE r2
    ELSE [r1 EXCEPT !.failedAttempts = 0]

\* a block that never runs out
blockElapsed_Never(rec, t) == FALSE

\* the block of rec has run out at time t
blockElapsed(rec, t) == rec.blockUntil # NULL /\ t > rec.blockUntil

\* isCurrentlyBlocked(), run at time t: what it returns
isCurrentlyBlocked(rec, t) == rec.isBlocked /\ ~blockElapsed(rec, t)

\* isCurrentlyBlocked() without line 63: the failure count survives the block
afterBlockCheck_KeepFailures(rec, t) ==
    IF rec.isBlocked /\ blockElapsed(rec, t)
    THEN [rec EXCEPT !.isBlocked = FALSE, !.blockUntil = NULL]
    ELSE rec

\* isCurrentlyBlocked() without line 62: blockUntil survives the block
afterBlockCheck_KeepUntil(rec, t) ==
    IF rec.isBlocked /\ blockElapsed(rec, t)
    THEN [rec EXCEPT !.isBlocked = FALSE, !.failedAttempts = 0]
    ELSE rec

\* isCurrentlyBlocked(), run at time t: the record afterwards
afterBlockCheck(rec, t) ==
    IF rec.isBlocked /\ blockElapsed(rec, t)
    THEN [rec EXCEPT !.isBlocked = FALSE, !.blockUntil = NULL,
                     !.failedAttempts = 0]
    ELSE rec

\* new Date() - securityRecord.lastAttempt < 1000
rateExceeded(rec, t) == t - rec.lastAttempt < RATE_MS

(***************************************************************************)
(* The in-memory store: ACCESS_CODES is an array of records.               *)
(***************************************************************************)
AccessCode(code, maxUses, t, days) ==
    [code |-> code, maxUses |-> maxUses, currentUses |-> 0,
     createdAt |-> t, expiresAt |-> t + days * DAY_MS, lastUsed |-> NULL]

\* the validity test without its expiry conjunct
isUsable_NoExpiry(ac, t) == ac.currentUses < ac.maxUses

\* code.currentUses < code.maxUses && new Date() < code.expiresAt
isUsable(ac, t) == ac.currentUses < ac.maxUses /\ t < ac.expiresAt

\* index of the element Array.prototype.find returns (the first of the
\* matching ones), 0 for undefined
firstIndex(S) == IF S = {} THEN 0 ELSE CHOOSE i \in S : \A j \in S : i <= j

\* ACCESS_CODES.find(code => code.code === c && usable)
findValid(codes, c, t) ==
    firstIndex({i \in 1..Len(codes) : codes[i].code = c /\ isUsable(codes[i], t)})

\* ACCESS_CODES.find(code => code.code === c)
findExisting(codes, c) ==
    firstIndex({i \in 1..Len(codes) : codes[i].code = c})

\* validCode.currentUses += 1; validCode.lastUsed = new Date()
consume(codes, i, t) ==
    [codes EXCEPT ![i].currentUses = @ + 1, ![i].lastUsed = t]

\* the message of the failure branch of sec1 / sec2
failureMessage(codes, c, t) ==
    LET j == findExisting(codes, c) IN
    IF j = 0 THEN MSG_INVALID
    ELSE IF codes[j].currentUses >= codes[j].maxUses THEN MSG_EXHAUSTED
    ELSE IF t >= codes[j].expiresAt THEN MSG_EXPIRED
    ELSE MSG_INVALID

(***************************************************************************)
(* sec1 / sec2: the security middleware and POST /api/check-access-code.   *)
(***************************************************************************)
\* a map that is built anew, with fresh records, when a client is added
withRecord_Rebuilt(records, c, t) ==
    IF c \in DOMAIN records THEN records
    ELSE [x \in DOMAIN records \cup {c} |-> SecurityRecord(x, t)]

\* SECURITY_RECORDS with a record for client c, created at t if the map
\* has none
withRecord(records, c, t) ==
    IF c \in DOMAIN records THEN records
    ELSE [x \in DOMAIN records \cup {c} |->
            IF x = c THEN SecurityRecord(c, t) ELSE records[x]]

\* how the security middleware ends for a request of client c on path:
\* "skip" (not the guarded path), "blocked", "rate", or "pass"
gateOutcome(records, c, path, t) ==
    IF path # "exact" THEN "skip"
    ELSE LET rec == withRecord(records, c, t)[c] IN
         IF isCurrentlyBlocked(rec, t) THEN "blocked"
         ELSE IF rateExceeded(afterBlockCheck(rec, t), t) THEN "rate"
         ELSE "pass"

\* SECURITY_RECORDS after the security middleware
gateRecords(records, c, path, t) ==
    IF path # "exact" THEN records
    ELSE LET rs == withRecord(records, c, t) IN
         [rs EXCEPT ![c] = afterBlockCheck(rs[c], t)]

\* the 429 the middleware sends
gateResponse(v, c, path, inp, outcome) ==
    Response("check", c, path, inp, 429, FALSE,
             IF outcome = "blocked" /\ v = "sec2" THEN MSG_BLOCKED_15MIN
             ELSE MSG_TOO_FREQUENT,
             NULL, outcome)

\* the handler's 400 / 500 answers
reject(c, path, inp, status, msg, log) ==
    Response("check", c, path, inp, status, FALSE, msg, NULL, log)

\* securityRecord.addAttempt(success), guarded by "if (securityRecord)" in
\* sec2; in sec1 the record is there whenever this is reached
noteAttempt(hasRec, rec, success, t) ==
    IF hasRec THEN addAttempt(rec, success, t) ELSE rec

countFailure(det) == [det EXCEPT !.failedAttempts = @ + 1]
countAttempt(det) == [det EXCEPT !.totalAttempts = @ + 1]

\* the route handler of sec1 / sec2, run at time t with req.securityRecord
\* = rec (hasRec: it is defined): the store, the record, the monitor and
\* the response afterwards
checkAccessCode(v, c, path, inp, hasRec, rec, codes, det, t) ==
    IF v = "sec1" /\ ~hasRec
    THEN \* securityRecord.ip throws; the catch branch answers
         [codes |-> codes, rec |-> rec, det |-> countFailure(det),
          resp |-> reject(c, path, inp, 500, MSG_SERVER_ERROR, "error")]
    ELSE
    LET det1 == countAttempt(det)
        failed(msg, log) ==
            [codes |-> codes, rec |-> noteAttempt(hasRec, rec, FALSE, t),
             det |-> countFailure(det1),
             resp |-> reject(c, path, inp, 400, msg, log)]
    IN
    IF MissingOrNotString(inp) THEN failed(MSG_MISSING, "input")
    ELSE
    LET code == cleaned(inp.s) IN
    IF Len(code) = 0 THEN failed(MSG_EMPTY, "input")
    ELSE IF ~isValidAccessCodeFormat(v, code)
    THEN failed(MSG_BAD_FORMAT, "format")
    ELSE
    LET i == findValid(codes, code, t) IN
    IF i # 0
    THEN LET codes1 == consume(codes, i, t) IN
         [codes |-> codes1, rec |-> noteAttempt(hasRec, rec, TRUE, t),
          det |-> det1,
          resp |-> Response("check", c, path, inp, 200, TRUE, MSG_OK,
                            codes1[i].maxUses - codes1[i].currentUses, "ok")]
    ELSE failed(failureMessage(codes, code, t), "fail")

\* one request to POST /api/check-access-code of sec1 / sec2: the
\* middleware and, when it calls next(), the handler
SecCheck(c, path, inp) ==
    /\ variant \in SecVariants
    /\ IF path = "exact" THEN UNCHANGED unpaced
       ELSE unpaced > 0 /\ unpaced' = unpaced - 1
    /\ LET outcome == gateOutcome(SECURITY_RECORDS, c, path, now)
           records == gateRecords(SECURITY_RECORDS, c, path, now)
       IN IF outcome \in {"blocked", "rate"}
          THEN /\ SECURITY_RECORDS' = records
               /\ resp' = gateResponse(variant, c, path, inp, outcome)
               /\ UNCHANGED <<ACCESS_CODES, ATTACK_DETECTION>>
          ELSE LET hasRec == outcome = "pass"
                   rec == IF hasRec THEN records[c] ELSE SecurityRecord(c, now)
                   out == checkAccessCode(variant, c, path, inp, hasRec, rec,
                                          ACCESS_CODES, ATTACK_DETECTION, now)
               IN /\ ACCESS_CODES' = out.codes
                  /\ ATTACK_DETECTION' = out.det
                  /\ SECURITY_RECORDS' =
                        IF hasRec THEN [records EXCEPT ![c] = out.rec]
                        ELSE records
                  /\ resp' = out.resp
    /\ UNCHANGED <<variant, ADMIN_KEY, lastTick, simulated_tests, now, ticks, collection, inflight>>

\* the values of process.env.ADMIN_KEY: not set, or a secret
UNSET == "undefined"
SECRET == "secret"

\* the adminKey values a request carries ("": none)
AdminKeys == {"", "wrong", SECRET}

\* the admin check that only asks for some key
adminRefused_MissingOnly(key) == key = ""

\* !adminKey || adminKey !== process.env.ADMIN_KEY
adminRefused(key) == key = "" \/ key # ADMIN_KEY

\* the ip values an unblock request carries ("": none)
Ips == Clients \cup {""}

\* the answer of a management route
AdminResponse(op, target, status, msg, log) ==
    Response(op, target, "none", NotAString, status, FALSE, msg, NULL, log)

\* an unblock that leaves the failure count alone
unblocked_KeepFailures(rec) ==
    [rec EXCEPT !.isBlocked = FALSE, !.blockUntil = NULL]

\* record.isBlocked = false; record.blockUntil = null;
\* record.failedAttempts = 0
unblocked(rec) ==
    [rec EXCEPT !.isBlocked = FALSE, !.blockUntil = NULL, !.failedAttempts = 0]

\* POST /api/admin/unblock-ip
UnblockIp(key, ip) ==
    /\ variant \in SecVariants
    /\ IF adminRefused(key)
       THEN /\ UNCHANGED SECURITY_RECORDS
            /\ resp' = AdminResponse("unblock", ip, 403, "forbidden", "none")
       ELSE IF ip = ""
       THEN /\ UNCHANGED SECURITY_RECORDS
            /\ resp' = AdminResponse("unblock", ip, 400, "ip required", "none")
       ELSE IF ip \in DOMAIN SECURITY_RECORDS
       THEN /\ SECURITY_RECORDS' =
                  [SECURITY_RECORDS EXCEPT ![ip] = unblocked(@)]
            /\ resp' = AdminResponse("unblock", ip, 200, "unblocked", "unblock")
       ELSE /\ UNCHANGED SECURITY_RECORDS
            /\ resp' = AdminResponse("unblock", ip, 404, "no record", "none")
    /\ UNCHANGED <<variant, ADMIN_KEY, lastTick, simulated_tests, now, ticks, unpaced, ACCESS_CODES,
                   ATTACK_DETECTION, collection, inflight>>

\* GET /api/health of sec1 / sec2 (GET / does the same to the state): it
\* counts the blocked records with isCurrentlyBlocked(), which lifts the
\* blocks that have run out
Health ==
    /\ variant \in SecVariants
    /\ SECURITY_RECORDS' =
          [c \in DOMAIN SECURITY_RECORDS |->
              afterBlockCheck(SECURITY_RECORDS[c], now)]
    /\ resp' = [op |-> "health", status |-> 200, valid |-> FALSE,
                blockedIPs |-> {c \in DOMAIN SECURITY_RECORDS :
                                  isCurrentlyBlocked(SECURITY_RECORDS[c], now)}]
    /\ UNCHANGED <<variant, ADMIN_KEY, lastTick, simulated_tests, now, ticks, unpaced, ACCESS_CODES,
                   ATTACK_DETECTION, collection, inflight>>

\* GET /api/admin/security-status of sec1 / sec2
SecurityStatus(key) ==
    /\ variant \in SecVariants
    /\ IF adminRefused(key)
       THEN /\ UNCHANGED SECURITY_RECORDS
            /\ resp' = AdminResponse("status", "admin", 403, "forbidden", "none")
       ELSE /\ SECURITY_RECORDS' =
                  [c \in DOMAIN SECURITY_RECORDS |->
                      afterBlockCheck(SECURITY_RECORDS[c], now)]
            /\ resp' = [op |-> "status", status |-> 200, valid |-> FALSE,
                        blockedIPs |->
                           {c \in DOMAIN SECURITY_RECORDS :
                              isCurrentlyBlocked(SECURITY_RECORDS[c], now)}]
    /\ UNCHANGED <<variant, ADMIN_KEY, lastTick, simulated_tests, now, ticks, unpaced, ACCESS_CODES,
                   ATTACK_DETECTION, collection, inflight>>

\* a sweep that looks at the age only
sweepable_AgeOnly(rec, t) == t - rec.firstSeen > RECORD_TTL

\* age > RECORD_TTL && !record.isCurrentlyBlocked()
sweepable(rec, t) ==
    t - rec.firstSeen > RECORD_TTL /\ ~isCurrentlyBlocked(rec, t)

\* the timer callback of cleanupSecurityRecords; the timer first fires
\* CLEANUP_INTERVAL after start-up
Sweep ==
    /\ variant \in SecVariants
    /\ now >= CLEANUP_INTERVAL
    /\ SECURITY_RECORDS' =
          [c \in {x \in DOMAIN SECURITY_RECORDS :
                    ~sweepable(SECURITY_RECORDS[x], now)}
              |-> SECURITY_RECORDS[c]]
    /\ UNCHANGED <<variant, ADMIN_KEY, lastTick, simulated_tests, now, ticks, unpaced, ACCESS_CODES,
                   ATTACK_DETECTION, collection, inflight, resp>>

(***************************************************************************)
(* env: POST /api/check-access-code and POST /api/admin/reset-access-code. *)
(***************************************************************************)
\* the message of the failure branch of env
envFailureMessage(codes, c, t) ==
    LET j == findExisting(codes, c) IN
    IF j = 0 THEN MSG_INVALID
    ELSE IF codes[j].currentUses >= codes[j].maxUses THEN MSG_EXHAUSTED
    ELSE IF t >= codes[j].expiresAt THEN MSG_EXPIRED
    ELSE MSG_ABNORMAL

EnvCheck(c, inp) ==
    /\ variant = "env"
    /\ IF MissingOrNotString(inp)
       THEN /\ resp' = reject(c, "exact", inp, 400, MSG_MISSING, "input")
            /\ UNCHANGED ACCESS_CODES
       ELSE
       LET code == cleaned(inp.s) IN
       IF Len(code) = 0
       THEN /\ resp' = reject(c, "exact", inp, 400, MSG_EMPTY, "input")
            /\ UNCHANGED ACCESS_CODES
       ELSE
       LET i == findValid(ACCESS_CODES, code, now) IN
       IF i # 0
       THEN /\ ACCESS_CODES' = consume(ACCESS_CODES, i, now)
            /\ resp' = Response("check", c, "exact", inp, 200, TRUE, MSG_OK,
                                ACCESS_CODES'[i].maxUses
                                    - ACCESS_CODES'[i].currentUses, "ok")
       ELSE /\ resp' = reject(c, "exact", inp, 400,
                              envFailureMessage(ACCESS_CODES, code, now), "fail")
            /\ UNCHANGED ACCESS_CODES
    /\ UNCHANGED <<variant, ADMIN_KEY, lastTick, simulated_tests, now, ticks, unpaced, SECURITY_RECORDS,
                   ATTACK_DETECTION, collection, inflight>>

\* targetCode.currentUses = 0
\* a reset that leaves the count alone
resetUses_Keep(codes, i) == codes

\* a reset that forgets the last use as well
resetUses_ClearLastUsed(codes, i) ==
    [codes EXCEPT ![i].currentUses = 0, ![i].lastUsed = NULL]

resetUses(codes, i) == [codes EXCEPT ![i].currentUses = 0]

\* the 200 of the reset route: {success, code, previousUses, currentUses}
ResetResponse(inp, previousUses) ==
    [op |-> "reset", client |-> "admin", path |-> "none", input |-> inp,
     status |-> 200, valid |-> FALSE, message |-> "reset",
     remainingUses |-> NULL, log |-> "reset", previousUses |-> previousUses,
     currentUses |-> 0]

\* the other answers of the reset route
resetRefused(inp, status, msg) ==
    Response("reset", "admin", "none", inp, status, FALSE, msg, NULL, "none")

\* POST /api/admin/reset-access-code; a request without a code carries
\* NotAString
EnvReset(key, inp) ==
    /\ variant = "env"
    /\ IF adminRefused(key)
       THEN /\ resp' = resetRefused(inp, 403, "forbidden")
            /\ UNCHANGED ACCESS_CODES
       ELSE IF MissingOrNotString(inp)
       THEN /\ resp' = resetRefused(inp, 400, "code required")
            /\ UNCHANGED ACCESS_CODES
       ELSE
       LET i == findExisting(ACCESS_CODES, cleaned(inp.s)) IN
       IF i = 0
       THEN /\ resp' = resetRefused(inp, 404, "code not found")
            /\ UNCHANGED ACCESS_CODES
       ELSE /\ ACCESS_CODES' = resetUses(ACCESS_CODES, i)
            /\ resp' = ResetResponse(inp, ACCESS_CODES[i].currentUses)
    /\ UNCHANGED <<variant, ADMIN_KEY, lastTick, simulated_tests, now, ticks, unpaced, SECURITY_RECORDS,
                   ATTACK_DETECTION, collection, inflight>>

\* GET /api/admin/access-codes of env
ListCodes(key) ==
    /\ variant = "env"
    /\ resp' = IF adminRefused(key)
               THEN AdminResponse("list", "admin", 403, "forbidden", "none")
               ELSE [op |-> "list", status |-> 200, valid |-> FALSE,
                     total |-> Len(ACCESS_CODES),
                     active |-> Cardinality({i \in 1..Len(ACCESS_CODES) :
                                    isUsable(ACCESS_CODES[i], now)})]
    /\ UNCHANGED <<variant, ADMIN_KEY, lastTick, simulated_tests, now, ticks, unpaced, ACCESS_CODES,
                   SECURITY_RECORDS, ATTACK_DETECTION, collection, inflight>>

(***************************************************************************)
(* mongo: POST /api/check-access-code.  The handler awaits the database    *)
(* twice; other requests run between its awaits.                           *)
(***************************************************************************)
\* a document of the collection access_codes; expiresAt = NULL: no field
Doc(code, maxUses, expiresAt) ==
    [code |-> code, used |-> FALSE, maxUses |-> maxUses, currentUses |-> 0,
     expiresAt |-> expiresAt, lastUsedAt |-> NULL]

\* the filter {code, used: false, $or: [{expiresAt: {$gt: now}},
\* {expiresAt: {$exists: false}}]}
matchesValidFilter(doc, c, t) ==
    /\ doc.code = c
    /\ doc.used = FALSE
    /\ (doc.expiresAt = NULL \/ doc.expiresAt > t)

\* collection.findOne(filter): the index of the document, 0 for null
findOneValid(docs, c, t) ==
    firstIndex({i \in 1..Len(docs) : matchesValidFilter(docs[i], c, t)})

\* collection.findOne({code})
findOneByCode(docs, c) ==
    firstIndex({i \in 1..Len(docs) : docs[i].code = c})

\* updateOne({_id}, {$set: {lastUsedAt: now}, $inc: {currentUses: 1}})
updateOneUse(docs, i, t) ==
    [docs EXCEPT ![i].currentUses = @ + 1, ![i].lastUsedAt = t]

\* the message of the failure branch of mongo
mongoFailureMessage(docs, c, t) ==
    LET j == findOneByCode(docs, c) IN
    IF j = 0 THEN MSG_INVALID
    ELSE IF docs[j].used THEN MSG_USED
    ELSE IF docs[j].expiresAt # NULL /\ docs[j].expiresAt <= t THEN MSG_EXPIRED
    ELSE IF docs[j].currentUses >= docs[j].maxUses THEN MSG_EXHAUSTED
    ELSE MSG_INVALID

\* the id a new request gets: the least one free
freeId == firstIndex((1..MaxInFlight) \ DOMAIN inflight)

without(f, r) == [x \in DOMAIN f \ {r} |-> f[x]]
with(f, r, v) == [x \in DOMAIN f \cup {r} |-> IF x = r THEN v ELSE f[x]]

\* a request arrives: the input checks, then the first findOne
MongoFind(c, inp) ==
    /\ variant = "mongo"
    /\ freeId # 0
    /\ unpaced > 0
    /\ unpaced' = unpaced - 1
    /\ IF MissingOrNotString(inp)
       THEN /\ resp' = reject(c, "exact", inp, 400, MSG_MISSING, "input")
            /\ UNCHANGED inflight
       ELSE
       LET code == cleaned(inp.s) IN
       IF Len(code) = 0
       THEN /\ resp' = reject(c, "exact", inp, 400, MSG_EMPTY, "input")
            /\ UNCHANGED inflight
       ELSE
       LET i == findOneValid(collection, code, now) IN
       /\ inflight' = with(inflight, freeId,
                           [pc |-> IF i # 0 THEN "update" ELSE "lookup",
                            client |-> c, input |-> inp, code |-> code,
                            doc |-> i,
                            validCode |-> IF i # 0 THEN collection[i]
                                          ELSE Doc(code, 0, NULL)])
       /\ UNCHANGED resp
    /\ UNCHANGED <<variant, ADMIN_KEY, lastTick, simulated_tests, now, ticks, ACCESS_CODES, SECURITY_RECORDS,
                   ATTACK_DETECTION, collection>>

\* validCode was found: updateOne, then the 200
MongoUpdate(r) ==
    /\ variant = "mongo"
    /\ r \in DOMAIN inflight
    /\ inflight[r].pc = "update"
    /\ collection' = updateOneUse(collection, inflight[r].doc, now)
    /\ resp' = Response("check", inflight[r].client, "exact", inflight[r].input,
                        200, TRUE, MSG_OK,
                        inflight[r].validCode.maxUses
                            - (inflight[r].validCode.currentUses + 1), "ok")
    /\ inflight' = without(inflight, r)
    /\ UNCHANGED <<variant, ADMIN_KEY, lastTick, simulated_tests, now, ticks, unpaced, ACCESS_CODES,
                   SECURITY_RECORDS, ATTACK_DETECTION>>

\* validCode was null: the second findOne, then the 400
MongoLookup(r) ==
    /\ variant = "mongo"
    /\ r \in DOMAIN inflight
    /\ inflight[r].pc = "lookup"
    /\ resp' = reject(inflight[r].client, "exact", inflight[r].input, 400,
                      mongoFailureMessage(collection, inflight[r].code, now),
                      "fail")
    /\ inflight' = without(inflight, r)
    /\ UNCHANGED <<variant, ADMIN_KEY, lastTick, simulated_tests, now, ticks, unpaced, ACCESS_CODES,
                   SECURITY_RECORDS, ATTACK_DETECTION, collection>>

\* error.name of the error with which a driver call is rejected when the
\* store cannot be reached: the connection broke, or no server could be
\* selected within serverSelectionTimeoutMS
StoreErrors == {"MongoNetworkError", "MongoServerSelectionError"}

MSG_DB_UNAVAILABLE == "database connection failed, retry later"

\* the catch branch of POST /api/check-access-code
storeFailure(c, inp, name) ==
    IF name = "MongoNetworkError"
    THEN Response("check", c, "exact", inp, 503, FALSE, MSG_DB_UNAVAILABLE,
                  NULL, "unavailable")
    ELSE Response("check", c, "exact", inp, 500, FALSE, MSG_SERVER_ERROR,
                  NULL, "error")

\* a request whose first findOne is rejected with an error called name
MongoFindFails(c, inp, name) ==
    /\ variant = "mongo"
    /\ unpaced > 0
    /\ unpaced' = unpaced - 1
    /\ ~MissingOrNotString(inp)
    /\ Len(cleaned(inp.s)) > 0
    /\ resp' = storeFailure(c, inp, name)
    /\ UNCHANGED <<variant, ADMIN_KEY, lastTick, simulated_tests, now, ticks, ACCESS_CODES, SECURITY_RECORDS,
                   ATTACK_DETECTION, collection, inflight>>

\* the updateOne or the second findOne of request r is rejected with an
\* error called name
MongoCallFails(r, name) ==
    /\ variant = "mongo"
    /\ r \in DOMAIN inflight
    /\ resp' = storeFailure(inflight[r].client, inflight[r].input, name)
    /\ inflight' = without(inflight, r)
    /\ UNCHANGED <<variant, ADMIN_KEY, lastTick, simulated_tests, now, ticks, unpaced, ACCESS_CODES,
                   SECURITY_RECORDS, ATTACK_DETECTION, collection>>

\* The names under which a request can send the admin token, and the name
\* under which Node's HTTP parser files a header (lower case); "": the
\* request sends no such header
HeaderNames == {"", "adminToken", "admintoken"}
nodeHeaderName(name) ==
    CASE name = "adminToken" -> "admintoken"
      [] OTHER -> name

\* req.headers of a request that sends token under name
headersOf(name, token) ==
    IF name = "" THEN <<>>
    ELSE [h \in {nodeHeaderName(name)} |-> token]

\* const { adminToken } = req.headers ("": undefined)
readAdminToken(headers) ==
    IF "adminToken" \in DOMAIN headers THEN headers["adminToken"] ELSE ""

\* POST /api/create-access-code of mongo, with the default expiresInHours.
\* No request gets past the admin check, so the findOne and the insertOne
\* behind it are given as one step.
MongoCreate(name, token, inp) ==
    /\ variant = "mongo"
    /\ unpaced > 0
    /\ unpaced' = unpaced - 1
    /\ IF adminRefused(readAdminToken(headersOf(name, token)))
       THEN /\ resp' = AdminResponse("create", "admin", 403, "forbidden", "none")
            /\ UNCHANGED collection
       ELSE IF MissingOrNotString(inp)
       THEN /\ resp' = AdminResponse("create", "admin", 400, "code required",
                                     "none")
            /\ UNCHANGED collection
       ELSE IF findOneByCode(collection, cleaned(inp.s)) # 0
       THEN /\ resp' = AdminResponse("create", "admin", 400, "code exists",
                                     "none")
            /\ UNCHANGED collection
       ELSE /\ collection' =
                  Append(collection,
                         Doc(cleaned(inp.s), 1, now + 24 * HOUR_MS))
            /\ resp' = AdminResponse("create", "admin", 200, "created",
                                     "create")
    /\ UNCHANGED <<variant, ADMIN_KEY, lastTick, simulated_tests, now, ticks, ACCESS_CODES,
                   SECURITY_RECORDS, ATTACK_DETECTION, inflight>>

(***************************************************************************)
(* checkForAttacks: the hourly timer of the attack monitor of sec1 / sec2. *)
(***************************************************************************)
ALERT_THRESHOLD == 50
ALERT_INTERVAL == 60 * 60 * 1000

\* recentFailures >= ALERT_THRESHOLD, and timeSinceLastAlert >
\* ALERT_INTERVAL, where a monitor without lastAlert counts
\* ALERT_INTERVAL + 1
alertDue(det, t) ==
    /\ det.failedAttempts >= ALERT_THRESHOLD
    /\ (IF det.lastAlert # NULL THEN t - det.lastAlert
        ELSE ALERT_INTERVAL + 1) > ALERT_INTERVAL

\* a callback that forgets to clear totalAttempts
checkForAttacks_KeepTotal(det, t) ==
    [det EXCEPT !.failedAttempts = 0,
                !.lastAlert = IF alertDue(det, t) THEN t ELSE @]

\* the timer callback, run at time t: the monitor afterwards
checkForAttacks(det, t) ==
    [totalAttempts |-> 0, failedAttempts |-> 0,
     lastAlert |-> IF alertDue(det, t) THEN t ELSE det.lastAlert]

\* one firing of the timer of checkForAttacks; setInterval fires it
\* ALERT_INTERVAL after the last firing, or later. The answer records the
\* line the callback logs.
MonitorTick ==
    /\ variant \in SecVariants
    /\ now >= lastTick + ALERT_INTERVAL
    /\ lastTick' = now
    /\ ATTACK_DETECTION' = checkForAttacks(ATTACK_DETECTION, now)
    /\ resp' = [op |-> "tick", status |-> 0, valid |-> FALSE,
                alert |-> alertDue(ATTACK_DETECTION, now),
                failures |-> ATTACK_DETECTION.failedAttempts]
    /\ UNCHANGED <<variant, ADMIN_KEY, simulated_tests, now, ticks, unpaced,
                   ACCESS_CODES, SECURITY_RECORDS, collection, inflight>>

(***************************************************************************)
(* POST /api/rankings.                                                     *)
(***************************************************************************)
DIMENSIONS ==
    {"egoism", "greed", "mach", "moral", "narcissism", "power",
     "psychopathy", "sadism", "selfcentered", "spitefulness"}

\* What a field of the JSON body can be: absent, a string, a number n.
\* (JSON carries no NaN, so isNaN(userScore) is false for every number.)
JsUndefined == [type |-> "undefined", n |-> 0]
JsString == [type |-> "string", n |-> 0]
Num(n) == [type |-> "number", n |-> n]

\* arithmetic in thousandths
SCALE == 1000
\* Math.sqrt(2), in thousandths
SQRT2 == CHOOSE r \in 0..(2 * SCALE) :
            r * r <= 2 * SCALE * SCALE /\ (r + 1) * (r + 1) > 2 * SCALE * SCALE

\* the terms of the series of exp that the sum still has to add
TERMS == 40

\* exp(y), y >= 0 in thousandths: the sum of the series from term k on
RECURSIVE expFrom(_, _, _)
expFrom(y, k, term) ==
    IF k > TERMS \/ term = 0 THEN 0
    ELSE term + expFrom(y, k + 1, (term * y) \div ((k + 1) * SCALE))

\* Math.tanh(x) for 2x = y2 >= 0: (e^2x - 1) / (e^2x + 1)
tanh2(y2) ==
    LET e == expFrom(y2, 0, SCALE) IN ((e - SCALE) * SCALE) \div (e + SCALE)

\* zScore = (userScore - 20) / 5; percentile = 100 * (0.5 * (1 +
\* Math.tanh(zScore / Math.sqrt(2)))); Math.min(100, Math.max(0,
\* Math.round(percentile))). 2 * zScore / sqrt(2) = zScore * sqrt(2).
percentileOf(userScore) ==
    LET d == userScore - 20
        y2 == ((IF d >= 0 THEN d ELSE 0 - d) * SQRT2) \div 5
        t == IF d >= 0 THEN tanh2(y2) ELSE 0 - tanh2(y2)
        rounded == (100 * (SCALE + t) + SCALE) \div (2 * SCALE)
    IN IF rounded > 100 THEN 100 ELSE IF rounded < 0 THEN 0 ELSE rounded

\* typeof userScore !== 'number' || isNaN(userScore)
notANumber(v) == v.type # "number"

\* the answers of the route: res.status(400).json({error}) and
\* res.json({rankings, userScores})
RankingsRefused(body) ==
    [op |-> "rankings", status |-> 400, valid |-> FALSE, body |-> body,
     computed |-> FALSE, rankings |-> [d \in DIMENSIONS |-> NULL],
     userScores |-> [d \in DIMENSIONS |-> NULL]]

RankingsComputed(body, rankings, userScores) ==
    [op |-> "rankings", status |-> 200, valid |-> FALSE, body |-> body,
     computed |-> TRUE, rankings |-> rankings, userScores |-> userScores]

\* sec1 and env: every dimension is checked, then transformed
rankingsStrict(body) ==
    IF ~body.isObject THEN RankingsRefused(body)
    ELSE IF \E d \in DIMENSIONS : notANumber(body.scores[d])
    THEN RankingsRefused(body)
    ELSE RankingsComputed(body,
                          [d \in DIMENSIONS |-> percentileOf(body.scores[d].n)],
                          [d \in DIMENSIONS |-> body.scores[d].n])

\* sec2: processedScores[dim] = (typeof score === 'number') ? score : 0
processedScores(body) ==
    [d \in DIMENSIONS |->
        IF body.scores[d].type = "number" THEN body.scores[d].n ELSE 0]

rankingsLenient(body) ==
    IF ~body.isObject THEN RankingsRefused(body)
    ELSE RankingsComputed(body,
                          [d \in DIMENSIONS |->
                              percentileOf(processedScores(body)[d])],
                          processedScores(body))

\* collection.countDocuments({[dim]: {$lt: userScore}})
countDocuments(tests, dim, userScore) ==
    LET matching == {doc \in BagToSet(tests) : doc[dim] < userScore}
    IN BagCardinality([doc \in matching |-> tests[doc]])

\* Math.floor((lowerCount / 1000) * 100) for 0 <= lowerCount <= 1000, in
\* IEEE doubles: for 290, 570 and 580 the product falls just short of the
\* integer (290 / 1000 * 100 = 28.999999999999996)
rankPercentage(lowerCount) ==
    IF lowerCount \in {290, 570, 580} THEN lowerCount \div 10 - 1
    ELSE lowerCount \div 10

\* mongo: every dimension is checked, then counted in simulated_tests
rankingsMongo(body, tests) ==
    IF ~body.isObject THEN RankingsRefused(body)
    ELSE IF \E d \in DIMENSIONS : notANumber(body.scores[d])
    THEN RankingsRefused(body)
    ELSE RankingsComputed(body,
            [d \in DIMENSIONS |->
                LET pct == rankPercentage(
                              countDocuments(tests, d, body.scores[d].n))
                IN IF pct > 100 THEN 100 ELSE IF pct < 0 THEN 0 ELSE pct],
            [d \in DIMENSIONS |-> body.scores[d].n])

\* one request to POST /api/rankings
Rankings(body) ==
    /\ resp' = CASE variant \in {"sec1", "env"} -> rankingsStrict(body)
                 [] variant = "sec2" -> rankingsLenient(body)
                 [] variant = "mongo" -> rankingsMongo(body, simulated_tests)
    /\ UNCHANGED <<variant, ADMIN_KEY, lastTick, simulated_tests, now, ticks,
                   unpaced, ACCESS_CODES, SECURITY_RECORDS, ATTACK_DETECTION,
                   collection, inflight>>

(***************************************************************************)
(* The clock.                                                              *)
(***************************************************************************)
\* The instants after now at which an answer of the program can change:
\* the end of the rate window opened now, the last instant of a running
\* block and the first one after it, the expiry of a code.
NextInstants ==
    {now + RATE_MS}
    \cup {SECURITY_RECORDS[c].blockUntil + e :
            c \in {x \in DOMAIN SECURITY_RECORDS :
                     SECURITY_RECORDS[x].blockUntil # NULL},
            e \in {0, 1}}
    \cup {ACCESS_CODES[i].expiresAt : i \in 1..Len(ACCESS_CODES)}
    \cup {collection[i].expiresAt :
            i \in {j \in 1..Len(collection) : collection[j].expiresAt # NULL}}

Advance(t) ==
    /\ ticks > 0
    /\ t > now
    /\ now' = t
    /\ ticks' = ticks - 1
    /\ UNCHANGED <<variant, ADMIN_KEY, lastTick, simulated_tests, unpaced, ACCESS_CODES, SECURITY_RECORDS,
                   ATTACK_DETECTION, collection, inflight, resp>>

(***************************************************************************)
(* The state after start-up.                                               *)
(***************************************************************************)
\* process.env.ACCESS_CODES, split at the commas
EnvCodeLists == {<<s_abc1_>>, <<sABC1, sAB>>}


\* initializeAccessCodes, run at time t with the environment's code list
\* and ACCESS_CODE_MAX_USES = maxUses
initializeAccessCodes(list, maxUses, t) ==
    [i \in 1..Len(list) |->
        AccessCode(cleaned(list[i]), maxUses, t, EXPIRY_DAYS)]

\* what the collection holds at start-up: one code, expiring after the
\* endpoint's default of 24 hours or never
SeedCollections(maxUses) ==
    {<<Doc(sABC1, maxUses, DAY_MS)>>, <<Doc(sABC1, maxUses, NULL)>>}

InitCommon ==
    /\ now = 0
    /\ lastTick = 0
    /\ simulated_tests = EmptyBag
    /\ SECURITY_RECORDS = <<>>
    /\ ATTACK_DETECTION = [totalAttempts |-> 0, failedAttempts |-> 0,
                           lastAlert |-> NULL]
    /\ inflight = <<>>
    /\ resp = NoResponse

InitMem(lists) ==
    /\ \E list \in lists, m \in 1..MaxUsesBound :
          ACCESS_CODES = initializeAccessCodes(list, m, 0)
    /\ collection = <<>>

InitMongo ==
    /\ ACCESS_CODES = <<>>
    /\ \E m \in 1..MaxUsesBound : collection \in SeedCollections(m)

Init ==
    /\ InitCommon
    /\ ADMIN_KEY = SECRET
    /\ ticks = ShortTicks
    /\ unpaced = MaxUnpaced
    /\ variant \in Variants
    /\ IF variant = "mongo" THEN InitMongo ELSE InitMem(EnvCodeLists)

Next ==
    \/ \E c \in Clients, p \in Paths, i \in Inputs : SecCheck(c, p, i)
    \/ \E k \in AdminKeys, ip \in Ips : UnblockIp(k, ip)
    \/ Health
    \/ Sweep
    \/ \E c \in Clients, i \in Inputs : EnvCheck(c, i)
    \/ \E k \in AdminKeys, i \in Inputs : EnvReset(k, i)
    \/ \E c \in Clients, i \in Inputs : MongoFind(c, i)
    \/ \E r \in 1..MaxInFlight : MongoUpdate(r)
    \/ \E r \in 1..MaxInFlight : MongoLookup(r)
    \/ \E t \in NextInstants : Advance(t)

\* every deployment, every input, short runs
Spec == Init /\ [][Next]_vars

(***************************************************************************)
(* The ledger scenario: sec1 / sec2 with one configured code, a request    *)
(* carrying that code or an unknown one, and runs long enough to block a   *)
(* client and see the block end.                                           *)
(***************************************************************************)
LedgerInputs == {Str(s_abc1_), Str(sCCCC)}

InitLedger ==
    /\ InitCommon
    /\ ADMIN_KEY = SECRET
    /\ ticks = MaxTicks
    /\ unpaced = LedgerUnpaced
    /\ variant \in SecVariants
    /\ InitMem({<<sABC1>>})

NextLedger ==
    \/ \E c \in Clients, p \in Paths, i \in LedgerInputs : SecCheck(c, p, i)
    \/ \E c \in Clients : UnblockIp(SECRET, c)
    \/ Health
    \/ Sweep
    \/ \E t \in NextInstants : Advance(t)

SpecLedger == InitLedger /\ [][NextLedger]_vars

(***************************************************************************)
(* The two-client scenario: sec1 / sec2, requests to the guarded path from  *)
(* two addresses, directly or through a proxy that names the client.       *)
(***************************************************************************)
PeerTicks == 5

\* the addresses requests come from or name
Peers == {"ip1", "ip2"}

\* where a request comes from: the entries of X-Forwarded-For, the values
\* of X-Real-IP and CF-Connecting-IP ("": header absent) and the address
\* of the socket
Origin(forwarded, realIP, cf, remote) ==
    [forwarded |-> forwarded, realIP |-> realIP, cfConnectingIP |-> cf,
     remoteAddress |-> remote]

Origins ==
    {Origin(<<>>, "", "", "ip1"), Origin(<<>>, "", "", "ip2"),
     Origin(<<"ip2", "ip1">>, "", "", "ip1"),
     Origin(<<>>, "ip2", "ip1", "ip1"), Origin(<<>>, "", "ip1", "ip2")}

\* getClientIP(req) of sec1
getClientIP(req) ==
    IF Len(req.forwarded) > 0 THEN req.forwarded[1]
    ELSE IF req.realIP # "" THEN req.realIP
    ELSE IF req.cfConnectingIP # "" THEN req.cfConnectingIP
    ELSE req.remoteAddress

\* req.ip of sec2 under app.set('trust proxy', 1): the address the one
\* trusted proxy reports, or the socket's when no proxy reports any
reqIp(req) ==
    IF Len(req.forwarded) > 0 THEN req.forwarded[Len(req.forwarded)]
    ELSE req.remoteAddress

\* const clientIP = ... in the security middleware of deployment v
clientIP(v, req) == IF v = "sec1" THEN getClientIP(req) ELSE reqIp(req)

PeerInputs == {Str(sCCCC)}

InitPeers ==
    /\ InitCommon
    /\ ADMIN_KEY = SECRET
    /\ ticks = PeerTicks
    /\ unpaced = LedgerUnpaced
    /\ variant \in SecVariants
    /\ InitMem({<<sABC1>>})

NextPeers ==
    \/ \E req \in Origins, i \in PeerInputs :
          SecCheck(clientIP(variant, req), "exact", i)
    \/ \E t \in NextInstants : Advance(t)

SpecPeers == InitPeers /\ [][NextPeers]_vars

(***************************************************************************)
(* The outage scenario: the MongoDB deployment, whose driver calls can be  *)
(* rejected because the store cannot be reached.                           *)
(***************************************************************************)
OutageInputs == {Str(sABC1), Str(sCCCC), Str(sBlank)}

InitOutage ==
    /\ InitCommon
    /\ ADMIN_KEY = SECRET
    /\ ticks = ShortTicks
    /\ unpaced = MaxUnpaced
    /\ variant = "mongo"
    /\ InitMongo

NextOutage ==
    \/ \E c \in Clients, i \in OutageInputs : MongoFind(c, i)
    \/ \E r \in 1..MaxInFlight : MongoUpdate(r)
    \/ \E r \in 1..MaxInFlight : MongoLookup(r)
    \/ \E c \in Clients, i \in OutageInputs, e \in StoreErrors :
          MongoFindFails(c, i, e)
    \/ \E r \in 1..MaxInFlight, e \in StoreErrors : MongoCallFails(r, e)
    \/ \E t \in NextInstants : Advance(t)

SpecOutage == InitOutage /\ [][NextOutage]_vars

(***************************************************************************)
(* The management scenario: every deployment with its management routes,   *)
(* with and without a configured admin secret, and with a code list that   *)
(* names one code twice.                                                   *)
(***************************************************************************)
AdminInputs == {NotAString, Str(s_abc1_), Str(sABC1), Str(sCCCC)}

AdminCodeLists == {<<sABC1, sAB>>, <<s_abc1_, sABC1>>}

InitAdmin ==
    /\ InitCommon
    /\ ADMIN_KEY \in {UNSET, SECRET}
    /\ ticks = ShortTicks
    /\ unpaced = MaxUnpaced
    /\ variant \in Variants
    /\ IF variant = "mongo" THEN InitMongo ELSE InitMem(AdminCodeLists)

NextAdmin ==
    \/ \E c \in Clients, p \in Paths, i \in AdminInputs : SecCheck(c, p, i)
    \/ \E k \in AdminKeys, ip \in Ips : UnblockIp(k, ip)
    \/ \E k \in AdminKeys : SecurityStatus(k)
    \/ Sweep
    \/ \E c \in Clients, i \in AdminInputs : EnvCheck(c, i)
    \/ \E k \in AdminKeys, i \in AdminInputs : EnvReset(k, i)
    \/ \E k \in AdminKeys : ListCodes(k)
    \/ \E c \in Clients, i \in AdminInputs : MongoFind(c, i)
    \/ \E r \in 1..MaxInFlight : MongoUpdate(r)
    \/ \E r \in 1..MaxInFlight : MongoLookup(r)
    \/ \E n \in HeaderNames, k \in AdminKeys, i \in AdminInputs :
          MongoCreate(n, k, i)
    \/ \E t \in NextInstants : Advance(t)

SpecAdmin == InitAdmin /\ [][NextAdmin]_vars

(***************************************************************************)
(* The monitor scenario: sec1 / sec2 with one configured code, failing     *)
(* requests that no gate paces (they come on a path the middleware does    *)
(* not recognise) in numbers that reach the alert threshold, and the       *)
(* monitor's timer firing on time or one millisecond late.                 *)
(***************************************************************************)
MonitorInputs == {Str(sCCCC)}

\* the instants at which the timer can fire next
MonitorInstants == {lastTick + ALERT_INTERVAL, lastTick + ALERT_INTERVAL + 1}

InitMonitor ==
    /\ InitCommon
    /\ ADMIN_KEY = SECRET
    /\ ticks = MonitorTicks
    /\ unpaced = MonitorUnpaced
    /\ variant \in SecVariants
    /\ InitMem({<<sABC1>>})

NextMonitor ==
    \/ \E c \in Clients, i \in MonitorInputs : SecCheck(c, "variant", i)
    \/ MonitorTick
    \/ \E t \in MonitorInstants : Advance(t)

SpecMonitor == InitMonitor /\ [][NextMonitor]_vars

(***************************************************************************)
(* The rankings scenario: every deployment, bodies that give all ten       *)
(* dimensions one score except for one dimension, and a simulated_tests    *)
(* collection that is empty or holds the documents of a run of seed.js.    *)
(***************************************************************************)
\* the scores a body carries
Scores == {0, 15, 20, 30, 35}

\* a body that is no object
NoBody == [isObject |-> FALSE, scores |-> [d \in DIMENSIONS |-> JsUndefined]]

\* the body with score b in every dimension but d, which holds v
BodyWith(b, d, v) ==
    [isObject |-> TRUE,
     scores |-> [x \in DIMENSIONS |-> IF x = d THEN v ELSE Num(b)]]

Bodies ==
    {NoBody}
    \cup {BodyWith(b, d, v) :
            b \in Scores, d \in DIMENSIONS,
            v \in {JsUndefined, JsString} \cup {Num(n) : n \in Scores}}

\* seed.js: NUM_TESTS documents with getRandomInt(7, 35) in every
\* dimension; one outcome, which spreads the scores evenly
NUM_TESTS == 1000
generateSingleTestData(i) == [d \in DIMENSIONS |-> 7 + (i % 29)]
Seeded ==
    [doc \in {generateSingleTestData(i) : i \in 1..29} |->
        Cardinality({i \in 1..NUM_TESTS : generateSingleTestData(i) = doc})]

InitRankings ==
    /\ now = 0
    /\ lastTick = 0
    /\ ADMIN_KEY = SECRET
    /\ ticks = 0
    /\ unpaced = 0
    /\ SECURITY_RECORDS = <<>>
    /\ ATTACK_DETECTION = [totalAttempts |-> 0, failedAttempts |-> 0,
                           lastAlert |-> NULL]
    /\ inflight = <<>>
    /\ resp = NoResponse
    /\ variant \in Variants
    /\ ACCESS_CODES = <<>>
    /\ collection = <<>>
    /\ simulated_tests \in
          IF variant = "mongo" THEN {EmptyBag, Seeded} ELSE {EmptyBag}

NextRankings == \E body \in Bodies : Rankings(body)

SpecRankings == InitRankings /\ [][NextRankings]_vars

(***************************************************************************)
(* Properties.                                                             *)
(***************************************************************************)
\* the in-memory records / the documents that carry code c
recordsOf(c) == {i \in 1..Len(ACCESS_CODES) : ACCESS_CODES[i].code = c}
docsOf(c) == {i \in 1..Len(collection) : collection[i].code = c}

\* the requests of mongo that passed the validity test for document i and
\* have their update and their 200 still to come
granted(i) ==
    {r \in DOMAIN inflight : inflight[r].pc = "update" /\ inflight[r].doc = i}

\* client c has a ledger record that is blocked, and the block still runs
BlockRuns(c) ==
    /\ c \in DOMAIN SECURITY_RECORDS
    /\ SECURITY_RECORDS[c].isBlocked
    /\ (SECURITY_RECORDS[c].blockUntil = NULL
        \/ now <= SECURITY_RECORDS[c].blockUntil)

\* client c has a ledger record that is blocked, and the block has run out
BlockRanOut(c) ==
    /\ c \in DOMAIN SECURITY_RECORDS
    /\ SECURITY_RECORDS[c].isBlocked
    /\ SECURITY_RECORDS[c].blockUntil # NULL
    /\ now > SECURITY_RECORDS[c].blockUntil

\* the step answers the verification request of client c on path p with
\* input inp, in a deployment with synchronous handlers
Answers(c, p, inp) ==
    /\ resp'.op = "check"
    /\ resp'.client = c
    /\ resp'.path = p
    /\ resp'.input = inp
    /\ SecCheck(c, p, inp) \/ EnvCheck(c, inp)

\* the step answers a verification request without consulting the store
StoreNotReached == resp'.log \in {"blocked", "rate"}

\* C1: for every code the uses granted so far - those counted in
\* currentUses, plus those of the requests that passed the validity test
\* and have their update still to come - never exceed maxUses, whatever the
\* interleaving of the requests.
C1_AtMostMaxUsesGranted ==
    /\ \A i \in 1..Len(ACCESS_CODES) :
          ACCESS_CODES[i].currentUses <= ACCESS_CODES[i].maxUses
    /\ \A i \in 1..Len(collection) :
          collection[i].currentUses + Cardinality(granted(i))
             <= collection[i].maxUses

\* C2: after every step each record has 0 <= currentUses <= maxUses, and
\* only an administrative reset lowers currentUses.
C2_UsesWithinBounds ==
    [][/\ \A i \in 1..Len(ACCESS_CODES') :
             /\ 0 <= ACCESS_CODES'[i].currentUses
             /\ ACCESS_CODES'[i].currentUses <= ACCESS_CODES'[i].maxUses
             /\ \/ ACCESS_CODES'[i].currentUses >= ACCESS_CODES[i].currentUses
                \/ \E k \in AdminKeys, inp \in Inputs : EnvReset(k, inp)
       /\ \A i \in 1..Len(collection') :
             /\ 0 <= collection'[i].currentUses
             /\ collection'[i].currentUses <= collection'[i].maxUses
             /\ collection'[i].currentUses >= collection[i].currentUses
      ]_vars

\* C3: a verification request that reaches the store is accepted if and
\* only if a record exists whose code is the normalized input, with
\* currentUses < maxUses and with no expiresAt or now < expiresAt.
C3_AcceptedIffValid ==
    [][/\ \A c \in Clients, p \in Paths, inp \in Inputs :
             (SecCheck(c, p, inp) \/ EnvCheck(c, inp))
             /\ resp'.log \in {"ok", "fail"}
             => (resp'.valid <=>
                   \E i \in recordsOf(cleaned(inp.s)) :
                      /\ ACCESS_CODES[i].currentUses < ACCESS_CODES[i].maxUses
                      /\ now < ACCESS_CODES[i].expiresAt)
       /\ \A c \in Clients, inp \in Inputs :
             MongoFind(c, inp)
             => \A r \in DOMAIN inflight' \ DOMAIN inflight :
                   (inflight'[r].pc = "update" <=>
                      \E i \in docsOf(cleaned(inp.s)) :
                         /\ collection[i].currentUses < collection[i].maxUses
                         /\ (collection[i].expiresAt = NULL
                             \/ now < collection[i].expiresAt))
      ]_vars

\* C4: a record with 5 consecutive failures is blocked until 15 minutes
\* after the fifth one, and while that block runs every request of the
\* client is answered 429 and leaves the store as it is, whatever code it
\* carries.
C4_BlockTrigger ==
    [][\A c \in Clients :
          /\ (c \in DOMAIN SECURITY_RECORDS'
              /\ SECURITY_RECORDS'[c].failedAttempts >= FAIL_THRESHOLD)
             => /\ SECURITY_RECORDS'[c].isBlocked
                /\ SECURITY_RECORDS'[c].blockUntil
                      = SECURITY_RECORDS'[c].lastAttempt + BLOCK_MS
          /\ \A p \in Paths, inp \in LedgerInputs :
                BlockRuns(c) /\ SecCheck(c, p, inp)
                => resp'.status = 429 /\ ACCESS_CODES' = ACCESS_CODES
      ]_vars

\* C5: no request of a client whose block runs consumes a use of a code or
\* is answered valid = true, whatever the form of its path.
C5_GateBeforeStore ==
    [][\A c \in Clients, p \in Paths, inp \in LedgerInputs :
          BlockRuns(c) /\ SecCheck(c, p, inp)
          => ACCESS_CODES' = ACCESS_CODES /\ ~resp'.valid
      ]_vars

\* C6: a request of a client less than 1000 ms after an attempt of that
\* client is answered 429 and does not reach the store.
C6_RateLimit ==
    [][\A c \in Clients, p \in Paths, inp \in Inputs :
          /\ c \in DOMAIN SECURITY_RECORDS
          /\ SECURITY_RECORDS[c].attempts > 0
          /\ now - SECURITY_RECORDS[c].lastAttempt < RATE_MS
          /\ SecCheck(c, p, inp)
          => resp'.status = 429 /\ StoreNotReached
      ]_vars

\* C7: a request is rejected as rate-limited only if the client was seen
\* before, less than 1000 ms earlier; the first request of an unseen
\* client is not.
C7_RateOnlyAfterAttempt ==
    [][\A c \in Clients, p \in Paths, inp \in Inputs :
          SecCheck(c, p, inp) /\ resp'.log = "rate"
          => /\ c \in DOMAIN SECURITY_RECORDS
             /\ now - SECURITY_RECORDS[c].lastAttempt < RATE_MS
      ]_vars

\* C8: a blocked record has blockUntil 15 minutes after the attempt that
\* blocked it; a check of the record up to blockUntil (by the middleware
\* or by the health route) reports it blocked and leaves it as it is; a
\* check after blockUntil does not report it blocked and leaves isBlocked
\* = false, blockUntil = null and a failure count that holds no failure
\* from before the block; and a record only becomes blocked by its fifth
\* consecutive failure.
C8_BlockExpiry ==
    [][\A c \in Clients :
          /\ (c \in DOMAIN SECURITY_RECORDS' /\ SECURITY_RECORDS'[c].isBlocked)
             => SECURITY_RECORDS'[c].blockUntil
                   = SECURITY_RECORDS'[c].lastAttempt + BLOCK_MS
          /\ \A inp \in LedgerInputs :
                /\ BlockRuns(c) /\ SecCheck(c, "exact", inp)
                   => /\ resp'.status = 429
                      /\ resp'.log = "blocked"
                      /\ SECURITY_RECORDS' = SECURITY_RECORDS
                /\ BlockRanOut(c) /\ SecCheck(c, "exact", inp)
                   => /\ ~StoreNotReached
                      /\ ~SECURITY_RECORDS'[c].isBlocked
                      /\ SECURITY_RECORDS'[c].blockUntil = NULL
                      /\ SECURITY_RECORDS'[c].failedAttempts
                            = IF resp'.valid THEN 0 ELSE 1
          /\ BlockRuns(c) /\ Health
             => /\ c \in resp'.blockedIPs
                /\ SECURITY_RECORDS' = SECURITY_RECORDS
          /\ BlockRanOut(c) /\ Health
             => /\ c \notin resp'.blockedIPs
                /\ ~SECURITY_RECORDS'[c].isBlocked
                /\ SECURITY_RECORDS'[c].blockUntil = NULL
                /\ SECURITY_RECORDS'[c].failedAttempts = 0
          /\ (/\ c \in DOMAIN SECURITY_RECORDS'
              /\ SECURITY_RECORDS'[c].isBlocked
              /\ ~(c \in DOMAIN SECURITY_RECORDS
                   /\ SECURITY_RECORDS[c].isBlocked))
             => /\ c \in DOMAIN SECURITY_RECORDS
                /\ SECURITY_RECORDS[c].failedAttempts = FAIL_THRESHOLD - 1
                /\ SECURITY_RECORDS'[c].failedAttempts = FAIL_THRESHOLD
      ]_vars

\* a check after the end of a block has just lifted it: the sixth attempt
\* of the client, more than 15 minutes after the fifth, found no block
C8_Witness ==
    /\ resp.op = "check"
    /\ resp.path = "exact"
    /\ resp.status \in {200, 400}
    /\ resp.client \in DOMAIN SECURITY_RECORDS
    /\ SECURITY_RECORDS[resp.client].attempts = FAIL_THRESHOLD + 1
    /\ SECURITY_RECORDS[resp.client].lastAttempt = now
    /\ now > FAIL_THRESHOLD * RATE_MS + BLOCK_MS
    /\ ~SECURITY_RECORDS[resp.client].isBlocked
    /\ SECURITY_RECORDS[resp.client].blockUntil = NULL
    /\ SECURITY_RECORDS[resp.client].failedAttempts <= 1

\* C9: a verification answered valid = true leaves the client's record
\* with failedAttempts = 0 and one attempt more, and with the isBlocked and
\* blockUntil it had (a block that had run out aside, which the check
\* before it lifts).
C9_SuccessResetsFailures ==
    [][\A c \in Clients, p \in Paths, inp \in Inputs :
          /\ c \in DOMAIN SECURITY_RECORDS
          /\ SecCheck(c, p, inp)
          /\ resp'.valid
          => /\ SECURITY_RECORDS'[c].failedAttempts = 0
             /\ SECURITY_RECORDS'[c].attempts
                   = SECURITY_RECORDS[c].attempts + 1
             /\ ~BlockRanOut(c)
                => /\ SECURITY_RECORDS'[c].isBlocked
                         = SECURITY_RECORDS[c].isBlocked
                   /\ SECURITY_RECORDS'[c].blockUntil
                         = SECURITY_RECORDS[c].blockUntil
      ]_vars

\* C10: no step changes the expiresAt of a code or turns the clock back;
\* a verification request made at or after the expiresAt of every record
\* of its code is rejected; and no step counts a use on a record whose
\* expiresAt has come, unless the request was admitted before it.
C10_ExpiryMonotone ==
    [][/\ now' >= now
       /\ Len(ACCESS_CODES') = Len(ACCESS_CODES)
       /\ Len(collection') = Len(collection)
       /\ \A i \in 1..Len(ACCESS_CODES) :
             /\ ACCESS_CODES'[i].expiresAt = ACCESS_CODES[i].expiresAt
             /\ now >= ACCESS_CODES[i].expiresAt
                => ACCESS_CODES'[i].currentUses <= ACCESS_CODES[i].currentUses
       /\ \A i \in 1..Len(collection) :
             /\ collection'[i].expiresAt = collection[i].expiresAt
             /\ (/\ collection[i].expiresAt # NULL
                 /\ now >= collection[i].expiresAt
                 /\ collection'[i].currentUses > collection[i].currentUses)
                => granted(i) # {}
       /\ \A c \in Clients, p \in Paths, inp \in Inputs :
             /\ Answers(c, p, inp)
             /\ inp.isString
             /\ recordsOf(cleaned(inp.s)) # {}
             /\ \A i \in recordsOf(cleaned(inp.s)) :
                   now >= ACCESS_CODES[i].expiresAt
             => ~resp'.valid /\ resp'.status # 200
       /\ \A c \in Clients, inp \in Inputs :
             /\ MongoFind(c, inp)
             /\ inp.isString
             /\ docsOf(cleaned(inp.s)) # {}
             /\ \A i \in docsOf(cleaned(inp.s)) :
                   /\ collection[i].expiresAt # NULL
                   /\ now >= collection[i].expiresAt
             => \A r \in DOMAIN inflight' \ DOMAIN inflight :
                   inflight'[r].pc = "lookup"
      ]_vars

\* a verification of a code that was never used has just been rejected as
\* expired, at or after the code's expiresAt
C10_Witness ==
    /\ resp.op = "check"
    /\ resp.input.isString
    /\ resp.status = 400
    /\ resp.message = MSG_EXPIRED
    /\ \/ \E i \in recordsOf(cleaned(resp.input.s)) :
             /\ ACCESS_CODES[i].currentUses = 0
             /\ now >= ACCESS_CODES[i].expiresAt
       \/ \E i \in docsOf(cleaned(resp.input.s)) :
             /\ collection[i].currentUses = 0
             /\ collection[i].expiresAt # NULL
             /\ now >= collection[i].expiresAt

\* the step rejects the verification request of client c with input inp
\* for its input or its format, in any deployment
RejectsMalformed(c, p, inp) ==
    \/ Answers(c, p, inp) /\ resp'.log \in {"input", "format"}
    \/ /\ p = "exact"
       /\ MongoFind(c, inp)
       /\ inflight' = inflight

\* C11: a verification request rejected for its input or its format adds
\* one to the failedAttempts of the client's record and of the monitor,
\* and the record is blocked once that count reaches 5.
C11_MalformedCountsAsFailure ==
    [][\A c \in Clients, p \in Paths, inp \in Inputs :
          RejectsMalformed(c, p, inp)
          => /\ c \in DOMAIN SECURITY_RECORDS'
             /\ SECURITY_RECORDS'[c].failedAttempts
                   = IF c \in DOMAIN SECURITY_RECORDS /\ ~BlockRanOut(c)
                     THEN SECURITY_RECORDS[c].failedAttempts + 1
                     ELSE 1
             /\ SECURITY_RECORDS'[c].failedAttempts >= FAIL_THRESHOLD
                => SECURITY_RECORDS'[c].isBlocked
             /\ ATTACK_DETECTION'.failedAttempts
                   = ATTACK_DETECTION.failedAttempts + 1
      ]_vars

\* 1 to 20 characters from A-Z and 0-9
WellFormed(code) ==
    /\ Len(code) \in 1..20
    /\ \A i \in 1..Len(code) : code[i] \in UpperLetters \cup Digits

\* C12: a verification request that the ledger gate lets through is passed
\* to the store if and only if its input is a string that, trimmed and
\* upper-cased, is 1 to 20 characters from A-Z and 0-9; every other one is
\* answered 400.
C12_FormatGate ==
    [][\A c \in Clients, p \in Paths, inp \in Inputs :
          /\ Answers(c, p, inp) /\ resp'.log \notin {"blocked", "rate", "error"}
             => /\ resp'.log \in {"ok", "fail"}
                   <=> inp.isString /\ WellFormed(cleaned(inp.s))
                /\ resp'.log \notin {"ok", "fail"} => resp'.status = 400
          /\ p = "exact" /\ MongoFind(c, inp)
             => /\ inflight' # inflight
                   <=> inp.isString /\ WellFormed(cleaned(inp.s))
                /\ inflight' = inflight => resp'.status = 400
      ]_vars

\* the code that an input names: the input without the blanks around it,
\* its letters in upper case
CaseFold == <<"a", "A">> :> "A" @@ <<"b", "B">> :> "B" @@ <<"c", "C">> :> "C"
FoldChar(ch) ==
    IF \E k \in DOMAIN CaseFold : ch = k[1] \/ ch = k[2]
    THEN CaseFold[CHOOSE k \in DOMAIN CaseFold : ch = k[1] \/ ch = k[2]]
    ELSE ch
Canon(s) ==
    LET inked == {i \in 1..Len(s) : s[i] # " "} IN
    IF inked = {} THEN <<>>
    ELSE LET lo == CHOOSE i \in inked : \A j \in inked : i <= j
             hi == CHOOSE i \in inked : \A j \in inked : i >= j
         IN [i \in 1..(hi - lo + 1) |-> FoldChar(s[lo + i - 1])]

\* C13: what a verification, a reset or a creation does with an input
\* depends only on the code the input names: a verification that reaches
\* the store is accepted exactly if a usable record holds that code, and
\* counts its use on such a record; a reset finds exactly the records of
\* that code; a creation stores that code.
C13_Normalization ==
    [][/\ \A c \in Clients, p \in Paths, inp \in AdminInputs :
             /\ Answers(c, p, inp) /\ resp'.log \in {"ok", "fail"}
                => /\ resp'.valid
                      <=> \E i \in 1..Len(ACCESS_CODES) :
                             /\ ACCESS_CODES[i].code = Canon(inp.s)
                             /\ ACCESS_CODES[i].currentUses
                                   < ACCESS_CODES[i].maxUses
                             /\ now < ACCESS_CODES[i].expiresAt
                   /\ \A i \in 1..Len(ACCESS_CODES) :
                         ACCESS_CODES'[i] # ACCESS_CODES[i]
                         => ACCESS_CODES[i].code = Canon(inp.s)
             /\ p = "exact" /\ MongoFind(c, inp)
                => \A r \in DOMAIN inflight' \ DOMAIN inflight :
                      /\ inflight'[r].code = Canon(inp.s)
                      /\ inflight'[r].pc = "update"
                         <=> \E i \in 1..Len(collection) :
                                /\ collection[i].code = Canon(inp.s)
                                /\ ~collection[i].used
                                /\ (collection[i].expiresAt = NULL
                                    \/ now < collection[i].expiresAt)
                      /\ inflight'[r].pc = "update"
                         => collection[inflight'[r].doc].code = Canon(inp.s)
       /\ \A inp \in AdminInputs :
             /\ EnvReset(SECRET, inp) /\ ADMIN_KEY = SECRET /\ inp.isString
                => /\ resp'.status = 200
                      <=> \E i \in 1..Len(ACCESS_CODES) :
                             ACCESS_CODES[i].code = Canon(inp.s)
                   /\ \A i \in 1..Len(ACCESS_CODES) :
                         ACCESS_CODES'[i] # ACCESS_CODES[i]
                         => ACCESS_CODES[i].code = Canon(inp.s)
             /\ (\E n \in HeaderNames, k \in AdminKeys : MongoCreate(n, k, inp))
                => \A i \in 1..Len(collection') :
                      i > Len(collection)
                      => collection'[i].code = Canon(inp.s)
      ]_vars

\* an input in lower case with blanks around it has just been accepted on
\* the record of the code in upper case
C13_Witness ==
    /\ resp.op = "check"
    /\ resp.valid
    /\ resp.input = Str(s_abc1_)
    /\ \E i \in 1..Len(ACCESS_CODES) :
          /\ ACCESS_CODES[i].code = sABC1
          /\ ACCESS_CODES[i].lastUsed = now
          /\ ACCESS_CODES[i].currentUses >= 1

\* C14: the store holds at most one record per code.
C14_UniqueCodes ==
    /\ \A i, j \in 1..Len(ACCESS_CODES) :
          ACCESS_CODES[i].code = ACCESS_CODES[j].code => i = j
    /\ \A i, j \in 1..Len(collection) :
          collection[i].code = collection[j].code => i = j

\* the step answers a creation request that carries the configured admin
\* secret in its adminToken header, for input inp
AdminCreates(inp) ==
    /\ ADMIN_KEY = SECRET
    /\ resp'.op = "create"
    /\ \E n \in HeaderNames \ {""} : MongoCreate(n, SECRET, inp)

\* C15: a creation by the administrator of a code that exists is answered
\* 400 and leaves the collection as it is.
C15_CreateAlreadyExists ==
    [][\A inp \in AdminInputs :
          /\ AdminCreates(inp)
          /\ inp.isString
          /\ \E i \in 1..Len(collection) : collection[i].code = Canon(inp.s)
          => resp'.status = 400 /\ collection' = collection
      ]_vars

\* the request carries no admin secret, or one that is not the configured
\* one
Unauthorized(key) == key = "" \/ ADMIN_KEY = UNSET \/ key # ADMIN_KEY

\* C16: a management request without the configured admin secret is
\* answered 403 and changes no code record, no client record and no
\* monitor state, whether or not a secret is configured.
C16_AdminGate ==
    [][\A k \in AdminKeys :
          /\ Unauthorized(k)
          /\ resp'.op \in {"unblock", "status", "reset", "list", "create"}
          /\ \/ \E ip \in Ips : UnblockIp(k, ip)
             \/ SecurityStatus(k)
             \/ ListCodes(k)
             \/ \E inp \in AdminInputs : EnvReset(k, inp)
             \/ \E n \in HeaderNames, inp \in AdminInputs :
                   MongoCreate(n, k, inp)
          => /\ resp'.status = 403
             /\ UNCHANGED <<ACCESS_CODES, collection, SECURITY_RECORDS,
                            ATTACK_DETECTION>>
      ]_vars

\* with no admin secret configured, an unblock request for a client that
\* has a record has just been answered 403
C16_Witness ==
    /\ ADMIN_KEY = UNSET
    /\ resp.op = "unblock"
    /\ resp.status = 403
    /\ resp.client \in DOMAIN SECURITY_RECORDS

\* C17: a creation by the administrator of a code that does not exist is
\* not answered 403; it adds a document of that code with currentUses = 0
\* that expires 24 hours later.
C17_CreateByAdmin ==
    [][\A inp \in AdminInputs :
          /\ AdminCreates(inp)
          /\ inp.isString
          /\ Canon(inp.s) # <<>>
          /\ \A i \in 1..Len(collection) : collection[i].code # Canon(inp.s)
          => /\ resp'.status # 403
             /\ Len(collection') = Len(collection) + 1
             /\ collection'[Len(collection')].code = Canon(inp.s)
             /\ collection'[Len(collection')].currentUses = 0
             /\ collection'[Len(collection')].expiresAt = now + 24 * HOUR_MS
      ]_vars

\* the step answers a reset request of the administrator for input inp
AdminResets(inp) ==
    /\ ADMIN_KEY = SECRET
    /\ resp'.op = "reset"
    /\ inp.isString
    /\ EnvReset(SECRET, inp)

\* C18: a reset of an existing code is answered 200 and leaves the record
\* it names with currentUses = 0 and everything else as it was; a reset
\* that follows a reset of the same code is answered 200 too, reports
\* previousUses = 0 and changes nothing; a reset of a code that no record
\* carries is answered 404 and changes no record.
C18_ResetIdempotent ==
    [][\A inp \in AdminInputs :
          AdminResets(inp) =>
             IF recordsOf(Canon(inp.s)) # {}
             THEN LET i == CHOOSE x \in recordsOf(Canon(inp.s)) :
                             \A y \in recordsOf(Canon(inp.s)) : x <= y
                  IN /\ resp'.status = 200
                     /\ resp'.currentUses = 0
                     /\ resp'.previousUses = ACCESS_CODES[i].currentUses
                     /\ ACCESS_CODES' =
                           [ACCESS_CODES EXCEPT ![i].currentUses = 0]
                     /\ (resp.op = "reset" /\ resp.status = 200
                         /\ resp.input = inp)
                        => /\ resp'.previousUses = 0
                           /\ ACCESS_CODES' = ACCESS_CODES
             ELSE /\ resp'.status = 404
                  /\ ACCESS_CODES' = ACCESS_CODES
      ]_vars

\* a reset has just found nothing to clear on a record that was used: the
\* record had been reset before
C18_Witness ==
    /\ resp.op = "reset"
    /\ resp.status = 200
    /\ resp.previousUses = 0
    /\ \E i \in 1..Len(ACCESS_CODES) :
          /\ ACCESS_CODES[i].code = Canon(resp.input.s)
          /\ \A j \in 1..(i - 1) : ACCESS_CODES[j].code # ACCESS_CODES[i].code
          /\ ACCESS_CODES[i].lastUsed # NULL
          /\ ACCESS_CODES[i].currentUses = 0

\* C19: an unblock by the administrator of a client that has a record is
\* answered 200 and sets the record's isBlocked = false, blockUntil = null
\* and failedAttempts = 0, leaving its other fields and every other record
\* as they were; the client's next request, at least RATE_MS after its
\* last attempt, is not rejected as blocked; an unblock of a client without
\* a record is answered 404 and creates no record.
C19_Unblock ==
    [][\A c \in Clients :
          /\ (ADMIN_KEY = SECRET /\ resp'.op = "unblock"
              /\ UnblockIp(SECRET, c))
             => IF c \in DOMAIN SECURITY_RECORDS
                THEN /\ resp'.status = 200
                     /\ DOMAIN SECURITY_RECORDS' = DOMAIN SECURITY_RECORDS
                     /\ \A d \in DOMAIN SECURITY_RECORDS \ {c} :
                           SECURITY_RECORDS'[d] = SECURITY_RECORDS[d]
                     /\ ~SECURITY_RECORDS'[c].isBlocked
                     /\ SECURITY_RECORDS'[c].blockUntil = NULL
                     /\ SECURITY_RECORDS'[c].failedAttempts = 0
                     /\ SECURITY_RECORDS'[c].attempts
                           = SECURITY_RECORDS[c].attempts
                     /\ SECURITY_RECORDS'[c].lastAttempt
                           = SECURITY_RECORDS[c].lastAttempt
                     /\ SECURITY_RECORDS'[c].firstSeen
                           = SECURITY_RECORDS[c].firstSeen
                     /\ SECURITY_RECORDS'[c].ip = SECURITY_RECORDS[c].ip
                ELSE /\ resp'.status = 404
                     /\ SECURITY_RECORDS' = SECURITY_RECORDS
          /\ \A p \in Paths, inp \in LedgerInputs :
                /\ resp.op = "unblock"
                /\ resp.status = 200
                /\ resp.client = c
                /\ c \in DOMAIN SECURITY_RECORDS
                /\ now - SECURITY_RECORDS[c].lastAttempt >= RATE_MS
                /\ Answers(c, p, inp)
                => resp'.log # "blocked"
      ]_vars

\* an unblock has just cleared a block that five failures had set and that
\* had not run out
C19_Witness ==
    /\ resp.op = "unblock"
    /\ resp.status = 200
    /\ resp.client \in DOMAIN SECURITY_RECORDS
    /\ SECURITY_RECORDS[resp.client].attempts = FAIL_THRESHOLD
    /\ ATTACK_DETECTION.failedAttempts >= FAIL_THRESHOLD
    /\ now < SECURITY_RECORDS[resp.client].lastAttempt + BLOCK_MS
    /\ ~SECURITY_RECORDS[resp.client].isBlocked
    /\ SECURITY_RECORDS[resp.client].blockUntil = NULL
    /\ SECURITY_RECORDS[resp.client].failedAttempts = 0

\* C20: a sweep removes the records whose firstSeen is more than 24 hours
\* back and whose block, if any, has run out, and no other; the records it
\* keeps, those with a running block among them, it leaves as they were.
C20_Sweep ==
    [][Sweep =>
          \A c \in Clients :
             /\ c \in DOMAIN SECURITY_RECORDS'
                <=> /\ c \in DOMAIN SECURITY_RECORDS
                    /\ \/ now - SECURITY_RECORDS[c].firstSeen <= 24 * HOUR_MS
                       \/ BlockRuns(c)
             /\ c \in DOMAIN SECURITY_RECORDS'
                => SECURITY_RECORDS'[c] = SECURITY_RECORDS[c]
      ]_vars

\* a sweep has removed the record of the client whose request was the last
\* one answered
C20_Witness ==
    /\ resp.op = "check"
    /\ resp.path = "exact"
    /\ now > 24 * HOUR_MS
    /\ resp.client \notin DOMAIN SECURITY_RECORDS

\* a record more than 24 hours old carries a running block
C20_OldBlocked ==
    \E c \in DOMAIN SECURITY_RECORDS :
       /\ now - SECURITY_RECORDS[c].firstSeen > 24 * HOUR_MS
       /\ BlockRuns(c)

\* C21: a sweep never removes the record of a client whose last
\* verification attempt is at most 24 hours back.
C21_SweepKeepsActive ==
    [][Sweep =>
          \A c \in DOMAIN SECURITY_RECORDS :
             now - SECURITY_RECORDS[c].lastAttempt <= 24 * HOUR_MS
             => /\ c \in DOMAIN SECURITY_RECORDS'
                /\ SECURITY_RECORDS'[c].failedAttempts
                      = SECURITY_RECORDS[c].failedAttempts
      ]_vars

\* C22: a tick of the monitor emits an alert, and sets lastAlert to the
\* time of the tick, if and only if failedAttempts >= 50 and either there
\* was no alert before or at least one hour has passed since lastAlert.
C22_AlertIff ==
    [][MonitorTick =>
          /\ resp'.alert
             <=> /\ ATTACK_DETECTION.failedAttempts >= 50
                 /\ \/ ATTACK_DETECTION.lastAlert = NULL
                    \/ now - ATTACK_DETECTION.lastAlert >= HOUR_MS
          /\ resp'.alert => ATTACK_DETECTION'.lastAlert = now
      ]_vars

\* C23: a tick of the monitor leaves totalAttempts = 0 and failedAttempts
\* = 0 whether or not it emits an alert, and it changes lastAlert only
\* when it emits one.
C23_TickResets ==
    [][MonitorTick =>
          /\ ATTACK_DETECTION'.totalAttempts = 0
          /\ ATTACK_DETECTION'.failedAttempts = 0
          /\ ATTACK_DETECTION'.lastAlert # ATTACK_DETECTION.lastAlert
             => resp'.alert
      ]_vars

\* a tick that found the threshold reached has emitted no alert, because
\* of the alert before it, and has cleared the counters
C23_Witness ==
    /\ resp.op = "tick"
    /\ ~resp.alert
    /\ resp.failures >= ALERT_THRESHOLD
    /\ ATTACK_DETECTION.lastAlert # NULL
    /\ ATTACK_DETECTION.lastAlert < now
    /\ ATTACK_DETECTION.totalAttempts = 0
    /\ ATTACK_DETECTION.failedAttempts = 0
    /\ lastTick = now

\* C24: a verification request of sec1 / sec2 that the block and rate
\* gates do not stop adds exactly 1 to totalAttempts, and adds 1 to
\* failedAttempts when it is not accepted and 0 when it is; a request the
\* gates stop changes neither counter.
C24_MonitorCounts ==
    [][\A c \in Clients, p \in Paths, inp \in Inputs :
          /\ variant \in SecVariants
          /\ Answers(c, p, inp)
          => IF StoreNotReached
             THEN ATTACK_DETECTION' = ATTACK_DETECTION
             ELSE /\ ATTACK_DETECTION'.totalAttempts
                        = ATTACK_DETECTION.totalAttempts + 1
                  /\ ATTACK_DETECTION'.failedAttempts
                        = ATTACK_DETECTION.failedAttempts
                             + (IF resp'.valid THEN 0 ELSE 1)
                  /\ ATTACK_DETECTION'.lastAlert = ATTACK_DETECTION.lastAlert
      ]_vars

\* client c is blocked, or made an attempt less than RATE_MS ago
Limited(c) ==
    /\ c \in DOMAIN SECURITY_RECORDS
    /\ \/ BlockRuns(c)
       \/ now - SECURITY_RECORDS[c].lastAttempt < RATE_MS

\* the records of code that have a use left and have not expired
usableRecords(code) ==
    {i \in recordsOf(code) :
        /\ ACCESS_CODES[i].currentUses < ACCESS_CODES[i].maxUses
        /\ now < ACCESS_CODES[i].expiresAt}

\* the step counts exactly one use, on one record
OneUseConsumed ==
    \E i \in 1..Len(ACCESS_CODES) :
       ACCESS_CODES' =
          [ACCESS_CODES EXCEPT ![i].currentUses = @ + 1, ![i].lastUsed = now]

\* C25: a verification request is answered 429 if its client is blocked or
\* rate-limited, otherwise 400 if its input is malformed or its code has
\* no record with a use left and time to run, otherwise 200; and it is
\* answered valid = true if and only if the status is 200, in which case
\* exactly one use is counted, and none otherwise.
C25_StatusMapping ==
    [][\A c \in Clients, p \in Paths, inp \in Inputs :
          Answers(c, p, inp)
          => /\ resp'.status =
                   IF Limited(c) THEN 429
                   ELSE IF \/ ~inp.isString
                           \/ ~WellFormed(cleaned(inp.s))
                           \/ usableRecords(cleaned(inp.s)) = {}
                   THEN 400
                   ELSE 200
             /\ resp'.valid <=> resp'.status = 200
             /\ IF resp'.valid THEN OneUseConsumed
                ELSE ACCESS_CODES' = ACCESS_CODES
      ]_vars

\* C26: a verification request for a code that has records, all of them
\* used up, is answered with the status and the message that a request for
\* a code without a record gets: 400 and the message for an invalid code.
C26_ExhaustedLooksAbsent ==
    [][\A c \in Clients, p \in Paths, inp \in Inputs :
          /\ Answers(c, p, inp)
          /\ resp'.log = "fail"
          /\ \A i \in recordsOf(cleaned(inp.s)) :
                ACCESS_CODES[i].currentUses >= ACCESS_CODES[i].maxUses
          => /\ resp'.status = 400
             /\ resp'.message = MSG_INVALID
      ]_vars

\* the step answers a verification request with valid = true
Accepts ==
    /\ resp'.op = "check"
    /\ resp'.valid
    /\ \/ \E c \in Clients, p \in Paths, inp \in Inputs : Answers(c, p, inp)
       \/ \E r \in 1..MaxInFlight : MongoUpdate(r)

\* C27: a step that accepts a verification request adds exactly 1 to the
\* currentUses of one record, sets its last-used time to now, and reports
\* as remainingUses that record's maxUses minus its stored currentUses after
\* the step, which is not negative.
C27_PostIncrementState ==
    [][Accepts =>
          \/ \E i \in 1..Len(ACCESS_CODES) :
                /\ ACCESS_CODES' = [ACCESS_CODES EXCEPT
                                      ![i].currentUses = @ + 1,
                                      ![i].lastUsed = now]
                /\ resp'.remainingUses
                      = ACCESS_CODES'[i].maxUses - ACCESS_CODES'[i].currentUses
                /\ resp'.remainingUses >= 0
          \/ \E i \in 1..Len(collection) :
                /\ collection' = [collection EXCEPT
                                    ![i].currentUses = @ + 1,
                                    ![i].lastUsedAt = now]
                /\ resp'.remainingUses
                      = collection'[i].maxUses - collection'[i].currentUses
                /\ resp'.remainingUses >= 0
      ]_vars

\* the step answers the rankings request with this body
AnswersRankings(body) ==
    /\ resp'.op = "rankings"
    /\ resp'.body = body
    /\ Rankings(body)

\* C28: a rankings request in which a dimension is missing or is not a
\* number is answered 400, and no rankings are computed for it.
C28_RankingsRejects ==
    [][\A body \in Bodies :
          /\ AnswersRankings(body)
          /\ \/ ~body.isObject
             \/ \E d \in DIMENSIONS : body.scores[d].type # "number"
          => /\ resp'.status = 400
             /\ ~resp'.computed
      ]_vars

\* C29: a rankings request with a number in every dimension is answered
\* 200 with, for every dimension, an integer in 0..100 that is the tanh
\* transform (mean 20, standard deviation 5) of that dimension's score; a
\* score of 20 gives 50.
C29_TanhPercentile ==
    [][\A body \in Bodies :
          /\ AnswersRankings(body)
          /\ body.isObject
          /\ \A d \in DIMENSIONS : body.scores[d].type = "number"
          => /\ resp'.status = 200
             /\ \A d \in DIMENSIONS :
                   /\ resp'.rankings[d] \in 0..100
                   /\ resp'.rankings[d] = percentileOf(body.scores[d].n)
                   /\ body.scores[d].n = 20 => resp'.rankings[d] = 50
      ]_vars

\* C30: a blocked record has a blockUntil, which is 15 minutes after the
\* attempt that imposed the block, and a record that is not blocked has
\* blockUntil = null; a step that imposes a block sets blockUntil to now
\* plus 15 minutes; a step that lifts one, by expiry or by an unblock,
\* leaves blockUntil = null and failedAttempts = 0, plus 1 when the step is
\* a verification request that fails once the block is lifted.
C30_BlockInvariant ==
    [][\A c \in DOMAIN SECURITY_RECORDS' :
          LET rec == SECURITY_RECORDS'[c] IN
          /\ rec.isBlocked
             => /\ rec.blockUntil # NULL
                /\ rec.blockUntil = rec.lastAttempt + 15 * 60 * 1000
                /\ rec.blockUntil > rec.lastAttempt
          /\ ~rec.isBlocked => rec.blockUntil = NULL
          /\ c \in DOMAIN SECURITY_RECORDS
             => LET old == SECURITY_RECORDS[c] IN
                /\ (~old.isBlocked /\ rec.isBlocked)
                   => rec.blockUntil = now + 15 * 60 * 1000
                /\ (old.isBlocked /\ ~rec.isBlocked)
                   => rec.failedAttempts
                         = IF rec.attempts = old.attempts + 1 /\ ~resp'.valid
                           THEN 1 ELSE 0
      ]_vars

\* the health route has just lifted a block that had run out
C30_Witness ==
    /\ resp.op = "health"
    /\ \E c \in DOMAIN SECURITY_RECORDS :
          /\ SECURITY_RECORDS[c].attempts = FAIL_THRESHOLD
          /\ ATTACK_DETECTION.failedAttempts >= FAIL_THRESHOLD
          /\ now > SECURITY_RECORDS[c].lastAttempt + BLOCK_MS
          /\ ~SECURITY_RECORDS[c].isBlocked
          /\ SECURITY_RECORDS[c].blockUntil = NULL
          /\ SECURITY_RECORDS[c].failedAttempts = 0

\* C31: a running block ends at most 15 minutes after the failure that
\* imposed it, and no step moves its blockUntil (a step can only clear
\* it); a request that the client sends after blockUntil is not rejected as
\* blocked, and on the guarded path it is passed on to the handler.
C31_NoPermanentLockout ==
    [][\A c \in Clients :
          /\ BlockRuns(c)
             => /\ SECURITY_RECORDS[c].blockUntil
                      <= SECURITY_RECORDS[c].lastAttempt + 15 * 60 * 1000
                /\ c \in DOMAIN SECURITY_RECORDS'
                   => SECURITY_RECORDS'[c].blockUntil
                         \in {SECURITY_RECORDS[c].blockUntil, NULL}
          /\ \A p \in Paths, inp \in LedgerInputs :
                BlockRanOut(c) /\ Answers(c, p, inp)
                => /\ resp'.log # "blocked"
                   /\ p = "exact"
                      => resp'.log \in {"ok", "fail", "input", "format"}
      ]_vars

\* the client's seventh request, after the end of the block that its five
\* failures brought, has been accepted
C31_Witness ==
    /\ resp.op = "check"
    /\ resp.path = "exact"
    /\ resp.valid
    /\ resp.client \in DOMAIN SECURITY_RECORDS
    /\ SECURITY_RECORDS[resp.client].attempts = FAIL_THRESHOLD + 1
    /\ SECURITY_RECORDS[resp.client].lastAttempt = now
    /\ SECURITY_RECORDS[resp.client].failedAttempts = 0
    /\ ATTACK_DETECTION.failedAttempts = FAIL_THRESHOLD
    /\ now > BLOCK_MS

\* the step answers a verification request, in any deployment
AnswersCheck ==
    /\ resp'.op = "check"
    /\ \/ \E c \in Clients, p \in Paths, inp \in AdminInputs :
             Answers(c, p, inp)
       \/ \E c \in Clients, inp \in AdminInputs :
             MongoFind(c, inp) /\ inflight' = inflight
       \/ \E r \in 1..MaxInFlight : MongoUpdate(r) \/ MongoLookup(r)

\* the only change of the step to the code records is to the currentUses of
\* records of code c
OnlyUsesOf(c) ==
    /\ collection' = collection
    /\ Len(ACCESS_CODES') = Len(ACCESS_CODES)
    /\ \A i \in 1..Len(ACCESS_CODES) :
          /\ ACCESS_CODES'[i].code = ACCESS_CODES[i].code
          /\ ACCESS_CODES'[i].maxUses = ACCESS_CODES[i].maxUses
          /\ ACCESS_CODES'[i].expiresAt = ACCESS_CODES[i].expiresAt
          /\ ACCESS_CODES'[i].createdAt = ACCESS_CODES[i].createdAt
          /\ ACCESS_CODES'[i].lastUsed = ACCESS_CODES[i].lastUsed
          /\ ACCESS_CODES[i].code # c
             => ACCESS_CODES'[i].currentUses = ACCESS_CODES[i].currentUses

\* C32: a step changes the code records only if it accepts a verification
\* request or answers a reset with 200; a verification request that is
\* rejected, for whatever reason, leaves every code record as it was; and
\* a reset changes nothing but the currentUses of records of the code it
\* names.
C32_CodeRecordFrame ==
    [][/\ (ACCESS_CODES' # ACCESS_CODES \/ collection' # collection)
          => \/ resp'.op = "check" /\ resp'.valid
             \/ resp'.op = "reset" /\ resp'.status = 200
       /\ (AnswersCheck /\ ~resp'.valid)
          => ACCESS_CODES' = ACCESS_CODES /\ collection' = collection
       /\ \A k \in AdminKeys, inp \in AdminInputs :
             (resp'.op = "reset" /\ EnvReset(k, inp))
             => /\ inp.isString => OnlyUsesOf(Canon(inp.s))
                /\ ~inp.isString => ACCESS_CODES' = ACCESS_CODES
      ]_vars

\* a reset has cleared the count of a code that had been used, and the
\* time of its last use is still on the record
C32_Witness ==
    /\ resp.op = "reset"
    /\ resp.status = 200
    /\ resp.previousUses > 0
    /\ \E i \in 1..Len(ACCESS_CODES) :
          /\ ACCESS_CODES[i].code = Canon(resp.input.s)
          /\ ACCESS_CODES[i].currentUses = 0
          /\ ACCESS_CODES[i].lastUsed # NULL

\* the reason that goes with a failed verification of a code of which the
\* store holds the records or documents recs (used, max, expiry: their
\* currentUses, maxUses and expiresAt): msg is that reason
ReasonFits(msg, recs, used, max, expiry) ==
    /\ (\E i \in recs : used[i] >= max[i]) => msg = MSG_EXHAUSTED
    /\ (/\ recs # {}
        /\ \A i \in recs : used[i] < max[i]
        /\ \E i \in recs : expiry[i] # NULL /\ now >= expiry[i])
       => msg = MSG_EXPIRED
    /\ msg = MSG_INVALID => recs = {}
    /\ recs # {} => msg \in {MSG_EXHAUSTED, MSG_EXPIRED}

\* C33: a verification that fails at the store reports 'exhausted' if a
\* record of the code has currentUses >= maxUses, 'expired' if the code
\* has records, none exhausted, and now >= expiresAt, and 'invalid code'
\* only if the code has no record; an existing code gets no other reason.
C33_FailureReason ==
    [][/\ \A c \in Clients, p \in Paths, inp \in Inputs :
             (Answers(c, p, inp) /\ resp'.log = "fail")
             => ReasonFits(resp'.message, recordsOf(cleaned(inp.s)),
                           [i \in 1..Len(ACCESS_CODES) |->
                               ACCESS_CODES[i].currentUses],
                           [i \in 1..Len(ACCESS_CODES) |->
                               ACCESS_CODES[i].maxUses],
                           [i \in 1..Len(ACCESS_CODES) |->
                               ACCESS_CODES[i].expiresAt])
       /\ \A r \in DOMAIN inflight :
             (resp'.op = "check" /\ MongoLookup(r))
             => ReasonFits(resp'.message, docsOf(inflight[r].code),
                           [i \in 1..Len(collection) |->
                               collection[i].currentUses],
                           [i \in 1..Len(collection) |->
                               collection[i].maxUses],
                           [i \in 1..Len(collection) |->
                               collection[i].expiresAt])
      ]_vars

\* C34: a verification request of client identity A creates or changes
\* A's security record only: every other identity has a record afterwards
\* iff it had one before, with the same attempts, failedAttempts,
\* lastAttempt, isBlocked and blockUntil.
C34_ClientIsolation ==
    [][\A req \in Origins, inp \in PeerInputs :
          Answers(clientIP(variant, req), "exact", inp)
          => \A b \in Peers \ {clientIP(variant, req)} :
                /\ b \in DOMAIN SECURITY_RECORDS'
                   <=> b \in DOMAIN SECURITY_RECORDS
                /\ b \in DOMAIN SECURITY_RECORDS
                   => SECURITY_RECORDS'[b] = SECURITY_RECORDS[b]
      ]_vars

\* client ip1 has just been blocked by its fifth failure while ip2, with
\* a record of its own from earlier requests, is not blocked
C34_Witness ==
    /\ resp.op = "check" /\ resp.client = "ip1" /\ resp.status = 400
    /\ DOMAIN SECURITY_RECORDS = Peers
    /\ SECURITY_RECORDS["ip1"].isBlocked
    /\ SECURITY_RECORDS["ip1"].failedAttempts = FAIL_THRESHOLD
    /\ SECURITY_RECORDS["ip2"].attempts > 0
    /\ ~SECURITY_RECORDS["ip2"].isBlocked

\* the step answers a verification request of which a driver call was
\* rejected because the store could not be reached
StoreUnreachable ==
    /\ resp'.op = "check"
    /\ resp'.log \in {"unavailable", "error"}
    /\ \/ \E c \in Clients, inp \in OutageInputs, e \in StoreErrors :
             MongoFindFails(c, inp, e)
       \/ \E r \in 1..MaxInFlight, e \in StoreErrors : MongoCallFails(r, e)

\* C35: a request that needs the store while the store cannot be reached
\* is answered 503 with a structured body, and no access-code document is
\* modified.
C35_Unavailable ==
    [][StoreUnreachable
       => /\ resp'.status = 503
          /\ ~resp'.valid
          /\ resp'.message = MSG_DB_UNAVAILABLE
          /\ collection' = collection
      ]_vars

\* C36: a verification request rejected with 429 by the middleware leaves
\* the attempts, failedAttempts, lastAttempt and blockUntil of the client's
\* record and the monitor's counters as they were; a request is rejected
\* as too frequent only within 1000 ms of an admitted attempt of the
\* client; and a request on the guarded path is admitted when the client
\* is not blocked and 1000 ms have passed since its last attempt.
C36_RejectionFrame ==
    [][\A c \in Clients, p \in Paths, inp \in LedgerInputs :
          Answers(c, p, inp)
          => /\ resp'.status = 429
                => /\ ATTACK_DETECTION' = ATTACK_DETECTION
                   /\ c \in DOMAIN SECURITY_RECORDS
                      => /\ SECURITY_RECORDS'[c].attempts
                               = SECURITY_RECORDS[c].attempts
                         /\ SECURITY_RECORDS'[c].failedAttempts
                               = SECURITY_RECORDS[c].failedAttempts
                         /\ SECURITY_RECORDS'[c].lastAttempt
                               = SECURITY_RECORDS[c].lastAttempt
                         /\ SECURITY_RECORDS'[c].blockUntil
                               = SECURITY_RECORDS[c].blockUntil
             /\ resp'.log = "rate"
                => /\ c \in DOMAIN SECURITY_RECORDS
                   /\ SECURITY_RECORDS[c].attempts > 0
                   /\ now - SECURITY_RECORDS[c].lastAttempt < RATE_MS
             /\ (/\ p = "exact"
                 /\ c \in DOMAIN SECURITY_RECORDS
                 /\ ~BlockRuns(c)
                 /\ now - SECURITY_RECORDS[c].lastAttempt >= RATE_MS)
                => resp'.status # 429
      ]_vars

\* C37: every security record has 0 <= failedAttempts <= 5 and
\* failedAttempts <= attempts, and a record with failedAttempts = 5 has
\* isBlocked = true.
C37_RecordInvariant ==
    \A c \in DOMAIN SECURITY_RECORDS :
       /\ 0 <= SECURITY_RECORDS[c].failedAttempts
       /\ SECURITY_RECORDS[c].failedAttempts <= FAIL_THRESHOLD
       /\ SECURITY_RECORDS[c].failedAttempts <= SECURITY_RECORDS[c].attempts
       /\ SECURITY_RECORDS[c].failedAttempts = FAIL_THRESHOLD
          => SECURITY_RECORDS[c].isBlocked

\* a record that was unblocked by the administrator and has been blocked
\* again: it has its fifth failure since the unblock and more than five
\* attempts
C37_Witness ==
    \E c \in DOMAIN SECURITY_RECORDS :
       /\ SECURITY_RECORDS[c].failedAttempts = FAIL_THRESHOLD
       /\ SECURITY_RECORDS[c].isBlocked
       /\ SECURITY_RECORDS[c].attempts > FAIL_THRESHOLD
       /\ resp.op = "check" /\ resp.status = 400

\* C38: the attack monitor always has 0 <= failedAttempts <= totalAttempts,
\* also after a verification request that ended in the handler's 500.
C38_MonitorInvariant ==
    /\ 0 <= ATTACK_DETECTION.failedAttempts
    /\ ATTACK_DETECTION.failedAttempts <= ATTACK_DETECTION.totalAttempts

====
